---- MODULE Spec2Model ----
(***************************************************************************)
(* A model of the lexical core of yecc: the byte streamer, the lexer built *)
(* on it, the open-addressing hash map and the string interner.            *)
(*                                                                         *)
(* Bytes are the integers 0..255 and EOF is -1, as in the C code.  The     *)
(* functions of the C code are operators that take the state they read and *)
(* return the state they leave, together with their return value:          *)
(*   a streamer operation returns [s |-> streamer, r |-> value],           *)
(*   a lexer helper returns      [lx |-> lexer,   r |-> value].            *)
(* Diagnostics only print; they are left out where they change no state.   *)
(*                                                                         *)
(* A function of the C code keeps its name.  One function calls another as *)
(* Call("name", argument), the argument a tuple when there are several:    *)
(* Call is defined after the functions and hands the call on to the        *)
(* definition of that name.  A loop of the C code is a RECURSIVE operator  *)
(* named after its function.                                               *)
(***************************************************************************)
EXTENDS Integers, Sequences, FiniteSets, TLC

VARIABLES
    file,       \* the bytes of the file the streamer / lexer reads
    ctx,        \* struct yecc_context: the flags the lexer branches on
    lx,         \* struct lexer (with its streamer lx.s)
    tok,        \* the token the last lexer_next returned
    prev_tok,   \* the token returned by the call before it
    call,       \* bookkeeping of the lexer run (see LexInit)
    st,         \* struct streamer driven directly (streamer specification)
    st_hist,    \* the last streamer operations with the positions around them
    m,          \* a map_of(uint32_t, uint32_t)
    m_call,     \* the map call in progress or last returned
    si,         \* the string interner: arena and map
    si_log      \* the intern / intern_n calls made so far and what they returned

vars == <<file, ctx, lx, tok, prev_tok, call, st, st_hist, m, m_call, si, si_log>>

RECURSIVE Call(_, _)

(***************************************************************************)
(* Characters.                                                             *)
(***************************************************************************)
ord ==
    "\t" :> 9 @@ "\n" :> 10 @@ "\f" :> 12 @@ "\r" :> 13 @@ " " :> 32 @@ "!" :> 33 @@
    "\"" :> 34 @@ "#" :> 35 @@ "$" :> 36 @@ "%" :> 37 @@ "&" :> 38 @@ "'" :> 39 @@
    "(" :> 40 @@ ")" :> 41 @@ "*" :> 42 @@ "+" :> 43 @@ "," :> 44 @@ "-" :> 45 @@
    "." :> 46 @@ "/" :> 47 @@ "0" :> 48 @@ "1" :> 49 @@ "2" :> 50 @@ "3" :> 51 @@
    "4" :> 52 @@ "5" :> 53 @@ "6" :> 54 @@ "7" :> 55 @@ "8" :> 56 @@ "9" :> 57 @@
    ":" :> 58 @@ ";" :> 59 @@ "<" :> 60 @@ "=" :> 61 @@ ">" :> 62 @@ "?" :> 63 @@
    "@" :> 64 @@ "A" :> 65 @@ "B" :> 66 @@ "C" :> 67 @@ "D" :> 68 @@ "E" :> 69 @@
    "F" :> 70 @@ "G" :> 71 @@ "H" :> 72 @@ "I" :> 73 @@ "J" :> 74 @@ "K" :> 75 @@
    "L" :> 76 @@ "M" :> 77 @@ "N" :> 78 @@ "O" :> 79 @@ "P" :> 80 @@ "Q" :> 81 @@
    "R" :> 82 @@ "S" :> 83 @@ "T" :> 84 @@ "U" :> 85 @@ "V" :> 86 @@ "W" :> 87 @@
    "X" :> 88 @@ "Y" :> 89 @@ "Z" :> 90 @@ "[" :> 91 @@ "\\" :> 92 @@ "]" :> 93 @@
    "^" :> 94 @@ "_" :> 95 @@ "a" :> 97 @@ "b" :> 98 @@ "c" :> 99 @@ "d" :> 100 @@
    "e" :> 101 @@ "f" :> 102 @@ "g" :> 103 @@ "h" :> 104 @@ "i" :> 105 @@ "j" :> 106 @@
    "k" :> 107 @@ "l" :> 108 @@ "m" :> 109 @@ "n" :> 110 @@ "o" :> 111 @@ "p" :> 112 @@
    "q" :> 113 @@ "r" :> 114 @@ "s" :> 115 @@ "t" :> 116 @@ "u" :> 117 @@ "v" :> 118 @@
    "w" :> 119 @@ "x" :> 120 @@ "y" :> 121 @@ "z" :> 122 @@ "{" :> 123 @@ "|" :> 124 @@
    "}" :> 125 @@ "~" :> 126

EOF_CH == -1

IsDigit(c) == c >= ord["0"] /\ c <= ord["9"]
IsUpper(c) == c >= ord["A"] /\ c <= ord["Z"]
IsLower(c) == c >= ord["a"] /\ c <= ord["z"]
IsAlpha(c) == IsUpper(c) \/ IsLower(c)
IsAlnum(c) == IsAlpha(c) \/ IsDigit(c)
IsXDigit(c) == IsDigit(c) \/ (c >= ord["a"] /\ c <= ord["f"]) \/ (c >= ord["A"] /\ c <= ord["F"])
\* isspace in the "C" locale: space, \t, \n, \v, \f, \r
IsSpace(c) == c = ord[" "] \/ (c >= 9 /\ c <= 13)
\* (unsigned char)c for an int c that is a byte or EOF (-1)
UChar(c) == IF c < 0 THEN c + 256 ELSE c

Min(a, b) == IF a <= b THEN a ELSE b

(***************************************************************************)
(* The streamer (src/source/streamer.c).  The buffer holds the bytes       *)
(* file[buffer_start+1 .. buffer_start+buffer_len]; the pushback arrays    *)
(* are one sequence of (byte, line, column), its last element the top.     *)
(***************************************************************************)
STREAMER_BUFFER_SIZE == 8192
STREAMER_PUSHBACK_DEPTH == 8

FileLen == Len(file)
\* the byte at file offset off (0-based)
FileByte(off) == file[off + 1]
\* s->buffer[i]; an index past the array reads the bytes of buffer_start, which follows
\* it in the struct and is 0 whenever buffer_pos has passed the end of the array
BufferByte(s, i) ==
    IF i >= STREAMER_BUFFER_SIZE THEN 0
    ELSE IF s.buffer_start + i < FileLen THEN FileByte(s.buffer_start + i) ELSE 0

\* refill_buffer that leaves buffer_pos as it was
refill_buffer_stale(s) ==
    [s EXCEPT !.buffer_len = IF s.buffer_start >= FileLen THEN 0
                             ELSE Min(STREAMER_BUFFER_SIZE, FileLen - s.buffer_start)]

refill_buffer(s) ==
    LET got == IF s.buffer_start >= FileLen THEN 0
               ELSE Min(STREAMER_BUFFER_SIZE, FileLen - s.buffer_start)
        bp  == s.pos - s.buffer_start
    IN  [s EXCEPT !.buffer_len = got,
                  !.buffer_pos = IF bp < 0 \/ bp > got THEN got ELSE bp]

streamer_open ==
    refill_buffer([pos |-> 0, line |-> 1, column |-> 1,
                   buffer_start |-> 0, buffer_len |-> 0, buffer_pos |-> 0,
                   pushback |-> <<>>, last_char |-> 0,
                   prev_line |-> 0, prev_column |-> 0])

\* streamer_eof that reports the end one byte early
streamer_eof_early(s) == s.pos + 1 >= FileLen
streamer_eof(s) == s.pos >= FileLen

streamer_peek(s) ==
    IF Len(s.pushback) > 0 THEN [s |-> s, r |-> s.pushback[Len(s.pushback)].c]
    ELSE IF s.pos >= FileLen THEN [s |-> s, r |-> EOF_CH]
    ELSE IF s.buffer_pos >= s.buffer_len
         THEN LET s1 == refill_buffer([s EXCEPT !.buffer_start =
                                          s.pos - (s.pos % STREAMER_BUFFER_SIZE)])
              IN  IF s1.buffer_len = 0 THEN [s |-> s1, r |-> EOF_CH]
                  ELSE [s |-> s1, r |-> BufferByte(s1, s1.buffer_pos)]
    ELSE [s |-> s, r |-> BufferByte(s, s.buffer_pos)]

streamer_next(s) ==
    IF Len(s.pushback) > 0
    THEN LET top == s.pushback[Len(s.pushback)]
         IN  [s |-> [s EXCEPT !.pushback = SubSeq(s.pushback, 1, Len(s.pushback) - 1),
                              !.line = top.line, !.column = top.column,
                              !.pos = s.pos + 1, !.buffer_pos = s.buffer_pos + 1,
                              !.last_char = top.c],
              r |-> top.c]
    ELSE LET pk == Call("streamer_peek", s)
             s1 == pk.s
             c  == pk.r
         IN  IF c < 0 THEN [s |-> s1, r |-> EOF_CH]
             ELSE [s |-> [s1 EXCEPT !.prev_line = s1.line, !.prev_column = s1.column,
                                    !.pos = s1.pos + 1, !.buffer_pos = s1.buffer_pos + 1,
                                    !.last_char = c,
                                    !.line = IF c = ord["\n"] THEN s1.line + 1 ELSE s1.line,
                                    !.column = IF c = ord["\n"] THEN 1 ELSE s1.column + 1],
                   r |-> c]

streamer_unget(s) ==
    IF s.pos = 0 \/ Len(s.pushback) >= STREAMER_PUSHBACK_DEPTH THEN [s |-> s, r |-> FALSE]
    ELSE LET s1 == [s EXCEPT !.pos = s.pos - 1]
             s2 == IF s1.buffer_pos > 0
                   THEN [s1 EXCEPT !.buffer_pos = s1.buffer_pos - 1]
                   ELSE LET s3 == refill_buffer([s1 EXCEPT !.buffer_start =
                                                    s1.pos - (s1.pos % STREAMER_BUFFER_SIZE)])
                        IN  [s3 EXCEPT !.buffer_pos = s3.pos - s3.buffer_start]
             c  == BufferByte(s2, s2.buffer_pos)
         IN  [s |-> [s2 EXCEPT !.pushback = Append(s2.pushback,
                                   [c |-> c, line |-> s2.line, column |-> s2.column]),
                               !.last_char = c],
              r |-> TRUE]

\* the walk of streamer_seek stopped one byte before the offset
RECURSIVE seek_walk_short(_, _)
seek_walk_short(s, offset) ==
    IF s.pos + 1 < offset
    THEN LET n == Call("streamer_next", s)
         IN  IF n.r < 0 THEN [s |-> n.s, r |-> FALSE] ELSE seek_walk_short(n.s, offset)
    ELSE [s |-> s, r |-> TRUE]

\* the loop of streamer_seek that reads up to the offset
RECURSIVE seek_walk(_, _)
seek_walk(s, offset) ==
    IF s.pos < offset
    THEN LET n == Call("streamer_next", s)
         IN  IF n.r < 0 THEN [s |-> n.s, r |-> FALSE] ELSE seek_walk(n.s, offset)
    ELSE [s |-> s, r |-> TRUE]

\* streamer_seek that keeps the pushback stack
streamer_seek_kept(s, offset) ==
    IF offset > FileLen THEN [s |-> s, r |-> FALSE]
    ELSE seek_walk(refill_buffer([s EXCEPT !.pos = 0, !.buffer_start = 0, !.buffer_len = 0,
                                          !.buffer_pos = 0, !.line = 1, !.column = 1]), offset)

streamer_seek(s, offset) ==
    IF offset > FileLen THEN [s |-> s, r |-> FALSE]
    ELSE seek_walk(refill_buffer([s EXCEPT !.pos = 0, !.buffer_start = 0, !.buffer_len = 0,
                                          !.buffer_pos = 0, !.line = 1, !.column = 1,
                                          !.pushback = <<>>]), offset)

streamer_position(s) == [line |-> s.line, column |-> s.column, offset |-> s.pos]

\* cache[0..4] as a 5-tuple (index k+1 is cache[k]): the bytes at pos-2 .. pos+2,
\* zero outside the file; both the in-buffer copy and the fread path read the file.
streamer_get_blob(s) ==
    [k \in 1..5 |-> LET off == s.pos - 3 + k
                    IN  IF off >= 0 /\ off < FileLen THEN FileByte(off) ELSE 0]

(***************************************************************************)
(* The lexer (src/source/lex/lexer.c).                                     *)
(*                                                                         *)
(* lx is struct lexer: [s, at_line_start, in_directive, pp_kind,           *)
(* expect_header_name].  ctx holds the context flags that decide a branch. *)
(* streamer_peek changes the streamer only by reloading the buffer window, *)
(* which shows in no later result, so PEEK is used as a value.  NEXT and   *)
(* PEEK are the macros of lexer.c.                                         *)
(***************************************************************************)
Cache(b, k) == b[k + 1]
WithS(l, s) == [l EXCEPT !.s = s]
\* the value streamer_peek returns, and the streamer streamer_next / streamer_unget leave
SPeek(s) == Call("streamer_peek", s).r
SNext(s) == Call("streamer_next", s).s
SUnget(s) == Call("streamer_unget", s).s
PEEK(l) == SPeek(l.s)
NEXT(l) == Call("streamer_next_preproc", l)
Blob(l) == streamer_get_blob(l.s)
Pos(l) == streamer_position(l.s)
AtEof(l) == streamer_eof(l.s)
\* s after n calls of streamer_next
RECURSIVE s_next_n(_, _)
s_next_n(s, n) == IF n = 0 THEN s ELSE s_next_n(SNext(s), n - 1)
\* n calls of streamer_unget
RECURSIVE s_unget_n(_, _)
s_unget_n(s, n) == IF n = 0 THEN s ELSE s_unget_n(SUnget(s), n - 1)

IsSplice(b) ==
    Cache(b, 2) = ord["\\"] /\
    (Cache(b, 3) = ord["\n"] \/ (Cache(b, 3) = ord["\r"] /\ Cache(b, 4) = ord["\n"]))

RECURSIVE skip_line_splice(_)
skip_line_splice(l) ==
    LET b == Blob(l)
    IN  IF IsSplice(b)
        THEN skip_line_splice(WithS(l, s_next_n(l.s, IF Cache(b, 3) = ord["\r"] THEN 3 ELSE 2)))
        ELSE l

\* pat[2] -> rep[0] of ALT_TRI_TABLE, in table order
ALT_TRI_TABLE ==
    << <<"=", "#">>, <<"/", "\\">>, <<"'", "^">>, <<"(", "[">>, <<")", "]">>,
       <<"!", "|">>, <<"<", "{">>, <<">", "}">>, <<"-", "~">> >>
\* {pat, rep} of ALT_DI_TABLE, in table order, one character per element
ALT_DI_TABLE ==
    << << <<"<", ":">>, <<"[">> >>, << <<":", ">">>, <<"]">> >>,
       << <<"<", "%">>, <<"{">> >>, << <<"%", ">">>, <<"}">> >>,
       << <<"%", ":">>, <<"#">> >>, << <<"%", ":", "%", ":">>, <<"#", "#">> >> >>

\* the index of the first ALT_TRI_TABLE entry whose third character is c, 0 if none
TriHit(c) ==
    LET hits == {i \in 1..Len(ALT_TRI_TABLE) : ord[ALT_TRI_TABLE[i][1]] = c}
    IN  IF hits = {} THEN 0 ELSE CHOOSE i \in hits : \A j \in hits : i <= j

\* returns [lx, r (0 or 1), out (the mapped character when r = 1)]
try_trigraph(l) ==
    LET s0 == l.s
        none(s) == [lx |-> WithS(l, s), r |-> 0, out |-> 0]
    IN  IF SPeek(s0) /= ord["?"] THEN none(s0)
        ELSE LET s1 == SNext(s0)
             IN  IF SPeek(s1) /= ord["?"] THEN none(SUnget(s1))
                 ELSE LET s2 == SNext(s1)
                          c  == SPeek(s2)
                      IN  IF c < 0 THEN none(s_unget_n(s2, 2))
                          ELSE IF TriHit(c) = 0 THEN none(s_unget_n(s2, 2))
                          ELSE LET s3 == SNext(s2)
                               IN  IF ~ctx.enable_trigraphs THEN none(s_unget_n(s3, 3))
                                   ELSE [lx |-> WithS(l, s3), r |-> 1,
                                         out |-> ord[ALT_TRI_TABLE[TriHit(c)][2]]]

\* NEXT(lx): returns [lx, r]
streamer_next_preproc(l) ==
    LET t == Call("try_trigraph", Call("skip_line_splice", l))
    IN  IF t.r = 1 THEN [lx |-> t.lx, r |-> t.out]
        ELSE LET n == Call("streamer_next", t.lx.s) IN [lx |-> WithS(t.lx, n.s), r |-> n.r]

\* one call of NEXT fewer than the code makes
RECURSIVE NEXT_n_short(_, _)
NEXT_n_short(l, n) == IF n <= 1 THEN l ELSE NEXT_n_short(NEXT(l).lx, n - 1)
\* lx after n calls of NEXT whose results are dropped
RECURSIVE NEXT_n(_, _)
NEXT_n(l, n) == IF n = 0 THEN l ELSE NEXT_n(NEXT(l).lx, n - 1)

IsHSpace(c) == c = ord[" "] \/ c = ord["\t"] \/ c = 11 \/ c = ord["\f"]

RECURSIVE skip_pp_hspace(_)
skip_pp_hspace(l) ==
    LET b == Blob(l)
    IN  IF Cache(b, 2) = ord["\\"] /\ Cache(b, 3) = ord["\n"]
        THEN skip_pp_hspace(WithS(l, s_next_n(l.s, 2)))
        ELSE IF Cache(b, 2) = ord["\\"] /\ Cache(b, 3) = ord["\r"] /\ Cache(b, 4) = ord["\n"]
        THEN skip_pp_hspace(WithS(l, s_next_n(l.s, 3)))
        ELSE IF IsHSpace(PEEK(l)) THEN skip_pp_hspace(WithS(l, SNext(l.s)))
        ELSE l

\* the loop of peek_preproc: returns [s, out]
RECURSIVE peek_preproc_loop(_, _, _)
peek_preproc_loop(s, out, need) ==
    IF Len(out) >= need THEN [s |-> s, out |-> out]
    ELSE LET a == SPeek(s)
         IN  IF a < 0 THEN [s |-> s, out |-> out]
             ELSE IF a = ord["\\"]
             THEN LET s1 == SNext(s)
                      b  == SPeek(s1)
                  IN  IF b = ord["\n"] THEN peek_preproc_loop(SNext(s1), out, need)
                      ELSE IF b = ord["\r"]
                      THEN LET s2 == SNext(s1)
                           IN  IF SPeek(s2) = ord["\n"]
                               THEN peek_preproc_loop(SNext(s2), out, need)
                               ELSE peek_preproc_loop(SUnget(s2),
                                                      Append(out, ord["\\"]), need)
                      ELSE peek_preproc_loop(s1, Append(out, ord["\\"]), need)
             ELSE IF ctx.enable_trigraphs /\ a = ord["?"]
             THEN LET s1 == SNext(s)
                  IN  IF SPeek(s1) = ord["?"]
                      THEN LET s2 == SNext(s1)
                               c  == SPeek(s2)
                           IN  IF c >= 0
                               THEN IF TriHit(c) /= 0
                                    THEN peek_preproc_loop(SNext(s2),
                                             Append(out, ord[ALT_TRI_TABLE[TriHit(c)][2]]), need)
                                    ELSE peek_preproc_loop(s_unget_n(s2, 2),
                                             Append(out, ord["?"]), need)
                               ELSE peek_preproc_loop(SUnget(s2),
                                             Append(out, ord["?"]), need)
                      ELSE peek_preproc_loop(s1, Append(out, ord["?"]), need)
             ELSE peek_preproc_loop(SNext(s), Append(out, a), need)

\* returns [lx, r (the characters read: out[0..got-1])]
peek_preproc(l, need) ==
    IF need = 0 THEN [lx |-> l, r |-> <<>>]
    ELSE LET saved == Pos(l)
             res   == peek_preproc_loop(l.s, <<>>, need)
         IN  [lx |-> WithS(l, Call("streamer_seek", <<res.s, saved.offset>>).s), r |-> res.out]

\* the loop of skip_to_safe_point: returns [lx, r (ended_on_nl)]
RECURSIVE safe_point_loop(_)
safe_point_loop(l) ==
    LET n == NEXT(l)
    IN  IF n.r < 0 THEN [lx |-> n.lx, r |-> FALSE]
        ELSE IF n.r = ord["\n"] THEN [lx |-> n.lx, r |-> TRUE]
        ELSE IF n.r = ord[";"] THEN [lx |-> n.lx, r |-> FALSE]
        ELSE safe_point_loop(n.lx)

\* the flags are left as the failed token found them
skip_to_safe_point_midline(l) == safe_point_loop(l).lx

skip_to_safe_point(l) ==
    LET res == safe_point_loop(l)
    IN  [res.lx EXCEPT !.at_line_start = res.r \/ PEEK(res.lx) = ord["\n"],
                       !.in_directive = FALSE]

\* the character codes of a spelling
Codes(cs) == [i \in 1..Len(cs) |-> ord[cs[i]]]
\* the first n elements of a sequence that has at least n
Prefix(q, n) == SubSeq(q, 1, n)
\* the least element of a non-empty set of integers
MinOf(S) == CHOOSE i \in S : \A j \in S : i <= j

\* struct token: kind, loc and, in val, the payload as far as the model follows it
Tok(kind, start, end, val) ==
    [kind |-> kind, loc |-> [start |-> start, end |-> end], val |-> val]
NoVal == <<>>

RECURSIVE ws_loop(_)
ws_loop(l) ==
    IF ~AtEof(l) /\ IsSpace(UChar(PEEK(l)))
    THEN LET n == NEXT(l)
         IN  ws_loop(IF n.r = ord["\n"]
                     THEN [n.lx EXCEPT !.at_line_start = TRUE, !.in_directive = FALSE]
                     ELSE n.lx)
    ELSE l

RECURSIVE line_comment_loop(_)
line_comment_loop(l) ==
    IF AtEof(l) THEN l
    ELSE LET n == NEXT(l) IN IF n.r /= ord["\n"] THEN line_comment_loop(n.lx) ELSE n.lx

\* returns [lx, r (closed)]
RECURSIVE block_comment_loop(_)
block_comment_loop(l) ==
    IF AtEof(l) THEN [lx |-> l, r |-> FALSE]
    ELSE LET n == NEXT(l)
         IN  IF n.r = ord["*"] /\ PEEK(n.lx) = ord["/"]
             THEN [lx |-> NEXT(n.lx).lx, r |-> TRUE]
             ELSE block_comment_loop(n.lx)

RECURSIVE skip_space_and_comments(_)
skip_space_and_comments(l) ==
    LET l1   == Call("ws_loop", Call("skip_line_splice", l))
        blob == Blob(l1)
    IN  IF PEEK(l1) = ord["/"] /\ Cache(blob, 2) = ord["/"] /\ Cache(blob, 3) = ord["/"]
        THEN skip_space_and_comments(
                 [line_comment_loop(NEXT_n(l1, 2)) EXCEPT !.at_line_start = TRUE,
                                                          !.in_directive = FALSE])
        ELSE IF PEEK(l1) = ord["/"] /\ Cache(blob, 2) = ord["/"] /\ Cache(blob, 3) = ord["*"]
        THEN LET c == block_comment_loop(NEXT_n(l1, 2))
             IN  skip_space_and_comments(IF c.r THEN c.lx
                                         ELSE Call("skip_to_safe_point", c.lx))
        ELSE l1

\* {str, kind} of puncts, in table order; str is spelled one character per element
puncts ==
    << << <<"<", "<", "=">>, "TOKEN_LSHIFT_ASSIGN" >>,
       << <<">", ">", "=">>, "TOKEN_RSHIFT_ASSIGN" >>,
       << <<".", ".", ".">>, "TOKEN_ELLIPSIS" >>,
       << <<"#", "#">>, "TOKEN_PP_HASHHASH" >>,
       << <<"<", "<">>, "TOKEN_LSHIFT" >>,
       << <<">", ">">>, "TOKEN_RSHIFT" >>,
       << <<"&", "&">>, "TOKEN_AND_AND" >>,
       << <<"|", "|">>, "TOKEN_OR_OR" >>,
       << <<"-", ">">>, "TOKEN_ARROW" >>,
       << <<"+", "+">>, "TOKEN_PLUS_PLUS" >>,
       << <<"-", "-">>, "TOKEN_MINUS_MINUS" >>,
       << <<"+", "=">>, "TOKEN_PLUS_ASSIGN" >>,
       << <<"-", "=">>, "TOKEN_MINUS_ASSIGN" >>,
       << <<"*", "=">>, "TOKEN_STAR_ASSIGN" >>,
       << <<"/", "=">>, "TOKEN_SLASH_ASSIGN" >>,
       << <<"%", "=">>, "TOKEN_PERCENT_ASSIGN" >>,
       << <<"&", "=">>, "TOKEN_AMP_ASSIGN" >>,
       << <<"^", "=">>, "TOKEN_XOR_ASSIGN" >>,
       << <<"|", "=">>, "TOKEN_OR_ASSIGN" >>,
       << <<"<", "=">>, "TOKEN_LE" >>,
       << <<">", "=">>, "TOKEN_GE" >>,
       << <<"=", "=">>, "TOKEN_EQEQ" >>,
       << <<"!", "=">>, "TOKEN_NEQ" >>,
       << <<"#">>, "TOKEN_PP_HASH" >>,
       << <<"?">>, "TOKEN_QUESTION" >>,
       << <<":">>, "TOKEN_COLON" >>,
       << <<";">>, "TOKEN_SEMICOLON" >>,
       << <<",">>, "TOKEN_COMMA" >>,
       << <<".">>, "TOKEN_PERIOD" >>,
       << <<"+">>, "TOKEN_PLUS" >>,
       << <<"-">>, "TOKEN_MINUS" >>,
       << <<"*">>, "TOKEN_STAR" >>,
       << <<"/">>, "TOKEN_SLASH" >>,
       << <<"%">>, "TOKEN_PERCENT" >>,
       << <<"<">>, "TOKEN_LT" >>,
       << <<">">>, "TOKEN_GT" >>,
       << <<"=">>, "TOKEN_ASSIGN" >>,
       << <<"!">>, "TOKEN_EXCLAMATION" >>,
       << <<"~">>, "TOKEN_TILDE" >>,
       << <<"^">>, "TOKEN_CARET" >>,
       << <<"&">>, "TOKEN_AMP" >>,
       << <<"|">>, "TOKEN_PIPE" >>,
       << <<"(">>, "TOKEN_LPAREN" >>,
       << <<")">>, "TOKEN_RPAREN" >>,
       << <<"[">>, "TOKEN_LBRACKET" >>,
       << <<"]">>, "TOKEN_RBRACKET" >>,
       << <<"{">>, "TOKEN_LBRACE" >>,
       << <<"}">>, "TOKEN_RBRACE" >> >>

\* puncts[i].str as character codes
punct_str == [i \in 1..Len(puncts) |-> Codes(puncts[i][1])]

\* returns [lx, r (0 or 1), kind]
consume_digraph_token(l) ==
    LET pk   == Call("peek_preproc", <<l, 4>>)
        look == pk.r
        k    == Len(look)
        Hit(i) == LET pat == Codes(ALT_DI_TABLE[i][1])
                  IN  k >= Len(pat) /\ Prefix(look, Len(pat)) = pat
        hits == {i \in 1..Len(ALT_DI_TABLE) : Hit(i)}
        \* the first entry of the greatest length among those that match
        hit  == CHOOSE i \in hits :
                    \A j \in hits : \/ Len(ALT_DI_TABLE[j][1]) < Len(ALT_DI_TABLE[i][1])
                                    \/ (Len(ALT_DI_TABLE[j][1]) = Len(ALT_DI_TABLE[i][1]) /\ i <= j)
        hit_len == Len(ALT_DI_TABLE[hit][1])
        reps == {i \in 1..Len(puncts) : puncts[i][1] = ALT_DI_TABLE[hit][2]}
    IN  IF hits = {} THEN [lx |-> pk.lx, r |-> 0, kind |-> "none"]
        ELSE IF ~ctx.enable_trigraphs THEN [lx |-> pk.lx, r |-> 0, kind |-> "none"]
        ELSE [lx |-> NEXT_n(pk.lx, hit_len), r |-> 1, kind |-> puncts[MinOf(reps)][2]]

\* The scan of puncts (lines 2065-2080): returns [lx, r (the index of the first entry
\* that matches, 0 if none)].  Every peek_preproc ends in streamer_seek to the offset
\* it started at, so a call after the first starts from the state the first one left
\* and what it reads depends on the length asked for alone.
punct_scan(l) ==
    LET first == Call("peek_preproc", <<l, Len(puncts[1][1])>>)
        p3 == first.r
        p2 == Call("peek_preproc", <<first.lx, 2>>).r
        p1 == Call("peek_preproc", <<first.lx, 1>>).r
        Read(n) == IF n = 3 THEN p3 ELSE IF n = 2 THEN p2 ELSE p1
        hits == {i \in 1..Len(puncts) : Read(Len(puncts[i][1])) = punct_str[i]}
    IN  [lx |-> first.lx, r |-> IF hits = {} THEN 0 ELSE MinOf(hits)]

\* returns [lx, r (the token)]
read_punctuator(l) ==
    LET start == Pos(l)
        dg    == Call("consume_digraph_token", l)
        sc    == Call("punct_scan", dg.lx)
    IN  IF dg.r /= 0 THEN [lx |-> dg.lx, r |-> Tok(dg.kind, start, Pos(dg.lx), NoVal)]
        ELSE IF sc.r /= 0
        THEN LET l2 == NEXT_n(sc.lx, Len(puncts[sc.r][1]))
             IN  [lx |-> l2, r |-> Tok(puncts[sc.r][2], start, Pos(l2), NoVal)]
        ELSE LET bad == NEXT(sc.lx)
             IN  [lx |-> bad.lx, r |-> Tok("TOKEN_ERROR", start, Pos(bad.lx), NoVal)]
\* {name, kind, is_pp} of KW_TABLE, in table order; name is spelled one character per element
KW_TABLE ==
    << << <<"_", "_", "a", "s", "m", "_", "_">>, "TOKEN_KW___ASM__", FALSE >>,
       << <<"a", "s", "m">>, "TOKEN_KW_ASM", FALSE >>,
       << <<"t", "y", "p", "e", "o", "f">>, "TOKEN_KW_TYPEOF", FALSE >>,
       << <<"_", "_", "a", "t", "t", "r", "i", "b", "u", "t", "e", "_", "_">>, "TOKEN_KW___ATTRIBUTE__", FALSE >>,
       << <<"_", "_", "b", "u", "i", "l", "t", "i", "n", "_", "t", "y", "p", "e", "s", "_", "c", "o", "m", "p", "a", "t", "i", "b", "l", "e", "_", "p">>, "TOKEN_KW___BUILTIN_TYPES_COMPATIBLE_P", FALSE >>,
       << <<"_", "_", "a", "u", "t", "o", "_", "t", "y", "p", "e">>, "TOKEN_KW___AUTO_TYPE", FALSE >>,
       << <<"_", "_", "e", "x", "t", "e", "n", "s", "i", "o", "n", "_", "_">>, "TOKEN_KW___EXTENSION__", FALSE >>,
       << <<"_", "_", "l", "a", "b", "e", "l", "_", "_">>, "TOKEN_KW___LABEL__", FALSE >>,
       << <<"_", "_", "r", "e", "a", "l", "_", "_">>, "TOKEN_KW___REAL__", FALSE >>,
       << <<"_", "_", "i", "m", "a", "g", "_", "_">>, "TOKEN_KW___IMAG__", FALSE >>,
       << <<"_", "_", "t", "h", "r", "e", "a", "d">>, "TOKEN_KW___THREAD", FALSE >>,
       << <<"_", "_", "F", "U", "N", "C", "T", "I", "O", "N", "_", "_">>, "TOKEN_KW___FUNCTION__", FALSE >>,
       << <<"_", "_", "i", "n", "t", "1", "2", "8">>, "TOKEN_KW___INT128", FALSE >>,
       << <<"_", "_", "c", "o", "n", "s", "t", "_", "_">>, "TOKEN_KW___CONST__", FALSE >>,
       << <<"_", "_", "s", "i", "g", "n", "e", "d", "_", "_">>, "TOKEN_KW___SIGNED__", FALSE >>,
       << <<"_", "_", "i", "n", "l", "i", "n", "e", "_", "_">>, "TOKEN_KW___INLINE__", FALSE >>,
       << <<"_", "_", "r", "e", "s", "t", "r", "i", "c", "t", "_", "_">>, "TOKEN_KW___RESTRICT__", FALSE >>,
       << <<"_", "_", "v", "o", "l", "a", "t", "i", "l", "e", "_", "_">>, "TOKEN_KW___VOLATILE__", FALSE >>,
       << <<"a", "u", "t", "o">>, "TOKEN_KW_AUTO", FALSE >>,
       << <<"t", "y", "p", "e", "d", "e", "f">>, "TOKEN_KW_TYPEDEF", FALSE >>,
       << <<"b", "r", "e", "a", "k">>, "TOKEN_KW_BREAK", FALSE >>,
       << <<"c", "a", "s", "e">>, "TOKEN_KW_CASE", FALSE >>,
       << <<"c", "h", "a", "r">>, "TOKEN_KW_CHAR", FALSE >>,
       << <<"c", "o", "n", "s", "t">>, "TOKEN_KW_CONST", FALSE >>,
       << <<"c", "o", "n", "t", "i", "n", "u", "e">>, "TOKEN_KW_CONTINUE", FALSE >>,
       << <<"d", "e", "f", "a", "u", "l", "t">>, "TOKEN_KW_DEFAULT", FALSE >>,
       << <<"d", "o">>, "TOKEN_KW_DO", FALSE >>,
       << <<"d", "o", "u", "b", "l", "e">>, "TOKEN_KW_DOUBLE", FALSE >>,
       << <<"e", "n", "u", "m">>, "TOKEN_KW_ENUM", FALSE >>,
       << <<"e", "x", "t", "e", "r", "n">>, "TOKEN_KW_EXTERN", FALSE >>,
       << <<"f", "l", "o", "a", "t">>, "TOKEN_KW_FLOAT", FALSE >>,
       << <<"f", "o", "r">>, "TOKEN_KW_FOR", FALSE >>,
       << <<"g", "o", "t", "o">>, "TOKEN_KW_GOTO", FALSE >>,
       << <<"i", "n", "l", "i", "n", "e">>, "TOKEN_KW_INLINE", FALSE >>,
       << <<"i", "n", "t">>, "TOKEN_KW_INT", FALSE >>,
       << <<"l", "o", "n", "g">>, "TOKEN_KW_LONG", FALSE >>,
       << <<"r", "e", "g", "i", "s", "t", "e", "r">>, "TOKEN_KW_REGISTER", FALSE >>,
       << <<"r", "e", "s", "t", "r", "i", "c", "t">>, "TOKEN_KW_RESTRICT", FALSE >>,
       << <<"r", "e", "t", "u", "r", "n">>, "TOKEN_KW_RETURN", FALSE >>,
       << <<"s", "h", "o", "r", "t">>, "TOKEN_KW_SHORT", FALSE >>,
       << <<"s", "i", "g", "n", "e", "d">>, "TOKEN_KW_SIGNED", FALSE >>,
       << <<"s", "i", "z", "e", "o", "f">>, "TOKEN_KW_SIZEOF", FALSE >>,
       << <<"s", "t", "a", "t", "i", "c">>, "TOKEN_KW_STATIC", FALSE >>,
       << <<"s", "t", "r", "u", "c", "t">>, "TOKEN_KW_STRUCT", FALSE >>,
       << <<"s", "w", "i", "t", "c", "h">>, "TOKEN_KW_SWITCH", FALSE >>,
       << <<"u", "n", "i", "o", "n">>, "TOKEN_KW_UNION", FALSE >>,
       << <<"u", "n", "s", "i", "g", "n", "e", "d">>, "TOKEN_KW_UNSIGNED", FALSE >>,
       << <<"v", "o", "i", "d">>, "TOKEN_KW_VOID", FALSE >>,
       << <<"v", "o", "l", "a", "t", "i", "l", "e">>, "TOKEN_KW_VOLATILE", FALSE >>,
       << <<"w", "h", "i", "l", "e">>, "TOKEN_KW_WHILE", FALSE >>,
       << <<"_", "B", "o", "o", "l">>, "TOKEN_KW__BOOL", FALSE >>,
       << <<"_", "C", "o", "m", "p", "l", "e", "x">>, "TOKEN_KW__COMPLEX", FALSE >>,
       << <<"_", "I", "m", "a", "g", "i", "n", "a", "r", "y">>, "TOKEN_KW_IMAGINARY", FALSE >>,
       << <<"_", "S", "t", "a", "t", "i", "c", "_", "a", "s", "s", "e", "r", "t">>, "TOKEN_KW__STATIC_ASSERT", FALSE >>,
       << <<"_", "N", "o", "r", "e", "t", "u", "r", "n">>, "TOKEN_KW_NORETURN", FALSE >>,
       << <<"_", "G", "e", "n", "e", "r", "i", "c">>, "TOKEN_KW_GENERIC", FALSE >>,
       << <<"_", "A", "t", "o", "m", "i", "c">>, "TOKEN_KW_ATOMIC", FALSE >>,
       << <<"s", "t", "a", "t", "i", "c", "_", "a", "s", "s", "e", "r", "t">>, "TOKEN_KW__STATIC_ASSERT", FALSE >>,
       << <<"e", "l", "i", "f", "d", "e", "f">>, "TOKEN_PP_ELIFDEF", TRUE >>,
       << <<"e", "l", "i", "f", "n", "d", "e", "f">>, "TOKEN_PP_ELIFNDEF", TRUE >>,
       << <<"a", "l", "i", "g", "n", "a", "s">>, "TOKEN_KW_ALIGNAS", FALSE >>,
       << <<"a", "l", "i", "g", "n", "o", "f">>, "TOKEN_KW_ALIGNOF", FALSE >>,
       << <<"t", "h", "r", "e", "a", "d", "_", "l", "o", "c", "a", "l">>, "TOKEN_KW_THREAD_LOCAL", FALSE >>,
       << <<"b", "o", "o", "l">>, "TOKEN_KW_BOOL", FALSE >>,
       << <<"t", "r", "u", "e">>, "TOKEN_KW_TRUE", FALSE >>,
       << <<"f", "a", "l", "s", "e">>, "TOKEN_KW_FALSE", FALSE >>,
       << <<"_", "B", "i", "t", "I", "n", "t">>, "TOKEN_KW__BITINT", FALSE >>,
       << <<"_", "D", "e", "c", "i", "m", "a", "l", "3", "2">>, "TOKEN_KW__DECIMAL32", FALSE >>,
       << <<"_", "D", "e", "c", "i", "m", "a", "l", "6", "4">>, "TOKEN_KW__DECIMAL64", FALSE >>,
       << <<"_", "D", "e", "c", "i", "m", "a", "l", "1", "2", "8">>, "TOKEN_KW__DECIMAL128", FALSE >>,
       << <<"_", "F", "l", "o", "a", "t", "3", "2">>, "TOKEN_KW__FLOAT32", FALSE >>,
       << <<"_", "F", "l", "o", "a", "t", "6", "4">>, "TOKEN_KW__FLOAT64", FALSE >>,
       << <<"_", "F", "l", "o", "a", "t", "8", "0">>, "TOKEN_KW__FLOAT80", FALSE >>,
       << <<"_", "F", "l", "o", "a", "t", "1", "2", "8">>, "TOKEN_KW__FLOAT128", FALSE >>,
       << <<"_", "A", "l", "i", "g", "n", "a", "s">>, "TOKEN_KW_ALIGNAS", FALSE >>,
       << <<"_", "A", "l", "i", "g", "n", "o", "f">>, "TOKEN_KW_ALIGNOF", FALSE >>,
       << <<"_", "T", "h", "r", "e", "a", "d", "_", "l", "o", "c", "a", "l">>, "TOKEN_KW_THREAD_LOCAL", FALSE >>,
       << <<"d", "e", "f", "i", "n", "e", "d">>, "TOKEN_PP_DEFINED", TRUE >>,
       << <<"i", "n", "c", "l", "u", "d", "e">>, "TOKEN_PP_INCLUDE", TRUE >>,
       << <<"d", "e", "f", "i", "n", "e">>, "TOKEN_PP_DEFINE", TRUE >>,
       << <<"u", "n", "d", "e", "f">>, "TOKEN_PP_UNDEF", TRUE >>,
       << <<"i", "f">>, "TOKEN_PP_IF", TRUE >>,
       << <<"i", "f", "d", "e", "f">>, "TOKEN_PP_IFDEF", TRUE >>,
       << <<"i", "f", "n", "d", "e", "f">>, "TOKEN_PP_IFNDEF", TRUE >>,
       << <<"e", "l", "i", "f">>, "TOKEN_PP_ELIF", TRUE >>,
       << <<"e", "l", "s", "e">>, "TOKEN_PP_ELSE", TRUE >>,
       << <<"i", "f">>, "TOKEN_KW_IF", FALSE >>,
       << <<"e", "l", "s", "e">>, "TOKEN_KW_ELSE", FALSE >>,
       << <<"e", "n", "d", "i", "f">>, "TOKEN_PP_ENDIF", TRUE >>,
       << <<"e", "r", "r", "o", "r">>, "TOKEN_PP_ERROR", TRUE >>,
       << <<"l", "i", "n", "e">>, "TOKEN_PP_LINE", TRUE >>,
       << <<"p", "r", "a", "g", "m", "a">>, "TOKEN_PP_PRAGMA", TRUE >>,
       << <<"_", "P", "r", "a", "g", "m", "a">>, "TOKEN_KW__PRAGMA", FALSE >>,
       << <<"w", "a", "r", "n", "i", "n", "g">>, "TOKEN_PP_WARNING", TRUE >>,
       << <<"e", "m", "b", "e", "d">>, "TOKEN_PP_EMBED", TRUE >>,
       << <<"_", "_", "h", "a", "s", "_", "i", "n", "c", "l", "u", "d", "e">>, "TOKEN_PP___HAS_INCLUDE", TRUE >>,
       << <<"_", "_", "h", "a", "s", "_", "c", "_", "a", "t", "t", "r", "i", "b", "u", "t", "e">>, "TOKEN_PP___HAS_C_ATTRIBUTE", TRUE >>,
       << <<"_", "_", "a", "s", "s", "e", "r", "t">>, "TOKEN_PP__ASSERT", TRUE >>,
       << <<"_", "_", "a", "s", "s", "e", "r", "t", "_", "a", "n", "y">>, "TOKEN_PP__ASSERT_ANY", TRUE >>,
       << <<"_", "_", "V", "A", "_", "O", "P", "T", "_", "_">>, "TOKEN_PP___VA_OPT__", TRUE >>,
       << <<"i", "n", "c", "l", "u", "d", "e", "_", "n", "e", "x", "t">>, "TOKEN_PP_INCLUDE_NEXT", TRUE >>,
       << <<"i", "m", "p", "o", "r", "t">>, "TOKEN_PP_IMPORT", TRUE >>,
       << <<"i", "d", "e", "n", "t">>, "TOKEN_PP_IDENT", TRUE >>,
       << <<"s", "c", "c", "s">>, "TOKEN_PP_SCCS", TRUE >>,
       << <<"a", "s", "s", "e", "r", "t">>, "TOKEN_PP_ASSERT", TRUE >>,
       << <<"u", "n", "a", "s", "s", "e", "r", "t">>, "TOKEN_PP_UNASSERT", TRUE >> >>

\* KW_TABLE[i].name as character codes
\* KwHits: the indices of the KW_TABLE entries named s, s a sequence of character codes
kw_name == [i \in 1..Len(KW_TABLE) |-> Codes(KW_TABLE[i][1])]
KwHits(s) == {i \in 1..Len(KW_TABLE) : kw_name[i] = s}

\* returns the index of the entry, 0 for nullptr
kw_lookup_ctx(s, in_directive) ==
    LET hits == KwHits(s)
        want == {i \in hits : KW_TABLE[i][3] = in_directive}
    IN  IF hits = {} THEN 0
        ELSE IF want /= {} THEN MinOf(want)
        ELSE MinOf(hits)

\* a classify_ident that returns the kind of the entry whatever the context
classify_ident_entry(s, in_directive) ==
    LET E == kw_lookup_ctx(s, in_directive)
    IN  IF E = 0 THEN "TOKEN_IDENTIFIER" ELSE KW_TABLE[E][2]

classify_ident(s, in_directive) ==
    LET E == kw_lookup_ctx(s, in_directive)
    IN  IF E = 0 THEN "TOKEN_IDENTIFIER"
        ELSE IF KW_TABLE[E][3] /\ ~in_directive THEN "TOKEN_IDENTIFIER"
        ELSE KW_TABLE[E][2]

is_include_like(k) ==
    k = "TOKEN_PP_INCLUDE" \/ k = "TOKEN_PP_INCLUDE_NEXT" \/ k = "TOKEN_PP_IMPORT"

pp_note_after_keyword(l, k) ==
    IF ~l.in_directive THEN l
    ELSE IF is_include_like(k)
    THEN [l EXCEPT !.pp_kind = IF k = "TOKEN_PP_INCLUDE" THEN "YECC_PP_INCLUDE"
                               ELSE IF k = "TOKEN_PP_INCLUDE_NEXT" THEN "YECC_PP_INCLUDE_NEXT"
                               ELSE "YECC_PP_IMPORT",
                   !.expect_header_name = TRUE]
    ELSE IF k = "TOKEN_PP_EMBED"
    THEN [l EXCEPT !.pp_kind = "YECC_PP_EMBED", !.expect_header_name = TRUE]
    ELSE [l EXCEPT !.pp_kind = "YECC_PP_OTHER", !.expect_header_name = FALSE]

\* the diagnostics of maybe_warn_from_entry are not state of the model
maybe_warn_ident_use(l, lexeme) ==
    LET E == kw_lookup_ctx(lexeme, l.in_directive)
    IN  IF E = 0 THEN l
        ELSE IF KW_TABLE[E][3] THEN pp_note_after_keyword(l, KW_TABLE[E][2])
        ELSE l

\* the C string held in a buffer: the bytes before the first NUL
RECURSIVE CStr(_)
CStr(buf) == IF buf = <<>> \/ Head(buf) = 0 THEN <<>> ELSE <<Head(buf)>> \o CStr(Tail(buf))

\* the loop of read_header_name: returns [lx, buf]
RECURSIVE header_name_loop(_, _)
header_name_loop(l, buf) ==
    IF ~AtEof(l) /\ PEEK(l) /= ord[">"] /\ PEEK(l) /= ord["\n"]
    THEN LET n == NEXT(l) IN header_name_loop(n.lx, Append(buf, UChar(n.r)))
    ELSE [lx |-> l, buf |-> buf]

read_header_name(l) ==
    LET start == Pos(l)
        body  == Call("header_name_loop", NEXT(l).lx)
        p     == Pos(body.lx)
    IN  IF PEEK(body.lx) = ord[">"]
        THEN LET l2 == NEXT(body.lx).lx
             IN  [lx |-> l2, r |-> Tok("TOKEN_HEADER_NAME", start, Pos(l2), CStr(body.buf))]
        ELSE [lx |-> Call("skip_to_safe_point", body.lx),
              r |-> Tok("TOKEN_ERROR", start, p, NoVal)]

\* the loop of read_quoted_header_name: returns [lx, buf]
RECURSIVE quoted_header_name_loop(_, _)
quoted_header_name_loop(l, buf) ==
    IF ~AtEof(l) /\ PEEK(l) /= ord["\""] /\ PEEK(l) /= ord["\n"]
    THEN LET n == NEXT(l)
         IN  IF n.r = ord["\\"] /\ (PEEK(n.lx) = ord["\""] \/ PEEK(n.lx) = ord["\\"])
             THEN LET n2 == NEXT(n.lx)
                  IN  quoted_header_name_loop(n2.lx, Append(buf, UChar(n2.r)))
             ELSE quoted_header_name_loop(n.lx, Append(buf, UChar(n.r)))
    ELSE [lx |-> l, buf |-> buf]

read_quoted_header_name(l) ==
    LET start == Pos(l)
        body  == Call("quoted_header_name_loop", NEXT(l).lx)
        p     == Pos(body.lx)
    IN  IF PEEK(body.lx) = ord["\""]
        THEN LET l2 == NEXT(body.lx).lx
             IN  [lx |-> l2, r |-> Tok("TOKEN_HEADER_NAME", start, Pos(l2), CStr(body.buf))]
        ELSE [lx |-> Call("skip_to_safe_point", body.lx),
              r |-> Tok("TOKEN_ERROR", start, p, NoVal)]

\* the bytes i .. i+len-1 of the sequence: returns [s, r (ok), bytes]
RECURSIVE utf8_bytes_loop(_, _, _, _)
utf8_bytes_loop(s, i, len, tmp) ==
    IF i >= len THEN [s |-> s, r |-> TRUE, bytes |-> tmp]
    ELSE IF streamer_eof(s) THEN [s |-> s, r |-> FALSE, bytes |-> <<>>]
    ELSE LET c == SPeek(s)
         IN  IF i > 0 /\ ~(c >= 128 /\ c <= 191) THEN [s |-> s, r |-> FALSE, bytes |-> <<>>]
             ELSE LET n == Call("streamer_next", s)
                  IN  utf8_bytes_loop(n.s, i + 1, len, Append(tmp, UChar(n.r)))

\* returns [s, r (ok), bytes (those appended to the buffer)]
utf8_validate_and_append(s) ==
    LET first == SPeek(s)
        len   == IF first <= 127 THEN 1
                 ELSE IF first >= 192 /\ first <= 223 THEN 2
                 ELSE IF first >= 224 /\ first <= 239 THEN 3
                 ELSE IF first >= 240 /\ first <= 247 THEN 4
                 ELSE 0
    IN  IF first < 0 THEN [s |-> s, r |-> FALSE, bytes |-> <<>>]
        ELSE IF len = 0 THEN [s |-> SNext(s), r |-> FALSE, bytes |-> <<>>]
        ELSE utf8_bytes_loop(s, 0, len, <<>>)

\* the value of a hexadecimal digit
HexVal(ch) ==
    IF IsDigit(ch) THEN ch - ord["0"]
    ELSE (IF IsLower(ch) THEN ch - 32 ELSE ch) - ord["A"] + 10

\* Code points are followed up to CodeCap: a greater one stays greater under
\* code << 4, which for at most eight digits does not wrap in 32 bits.
CodeCap == 1114112
ShiftIn(code, d) == Min(code * 16 + d, CodeCap)

\* the digit loop of parse_ucn: returns [lx, r (code, or 65533 when a digit is missing)]
RECURSIVE ucn_loop(_, _, _)
ucn_loop(l, i, code) ==
    IF i = 0 THEN [lx |-> l, r |-> code, ok |-> TRUE]
    ELSE IF ~IsXDigit(UChar(PEEK(l))) THEN [lx |-> l, r |-> 65533, ok |-> FALSE]
    ELSE LET n == NEXT(l) IN ucn_loop(n.lx, i - 1, ShiftIn(code, HexVal(n.r)))

parse_ucn(l) ==
    LET kind == NEXT(NEXT(l).lx)
        res  == Call("ucn_loop", <<kind.lx, IF kind.r = ord["u"] THEN 4 ELSE 8>>)
    IN  IF res.ok /\ (res.r > 1114111 \/ (res.r >= 55296 /\ res.r <= 57343))
        THEN [lx |-> res.lx, r |-> 65533]
        ELSE [lx |-> res.lx, r |-> res.r]

\* the bytes read_ident appends for the code point cp
Utf8Encode(cp) ==
    IF cp <= 127 THEN <<cp>>
    ELSE IF cp <= 2047 THEN <<192 + (cp \div 64), 128 + (cp % 64)>>
    ELSE IF cp <= 65535
    THEN <<224 + (cp \div 4096), 128 + ((cp \div 64) % 64), 128 + (cp % 64)>>
    ELSE <<240 + (cp \div 262144), 128 + ((cp \div 4096) % 64), 128 + ((cp \div 64) % 64),
           128 + (cp % 64)>>

\* the loop of read_ident: returns [lx, buf, ok (FALSE on invalid UTF-8)]
RECURSIVE ident_loop(_, _)
ident_loop(l0, buf) ==
    IF AtEof(l0) THEN [lx |-> l0, buf |-> buf, ok |-> TRUE]
    ELSE LET l == Call("skip_line_splice", l0)
             c == PEEK(l)
             u == UChar(c)
             bl == Blob(l)
         IN  IF IsAlpha(u) \/ c = ord["_"] \/ (ctx.gnu_extensions /\ c = ord["$"]) \/ IsDigit(u)
             THEN LET n == NEXT(l) IN ident_loop(n.lx, Append(buf, UChar(n.r)))
             ELSE IF c = ord["\\"]
             THEN IF Cache(bl, 3) = ord["\n"] \/ (Cache(bl, 3) = ord["\r"] /\ Cache(bl, 4) = ord["\n"])
                  THEN ident_loop(Call("skip_line_splice", l), buf)
                  ELSE IF Cache(bl, 3) = ord["u"] \/ Cache(bl, 3) = ord["U"]
                  THEN LET cp == Call("parse_ucn", l)
                       IN  ident_loop(cp.lx, buf \o Utf8Encode(cp.r))
                  ELSE [lx |-> l, buf |-> buf, ok |-> TRUE]
             ELSE IF u >= 128
             THEN LET v == Call("utf8_validate_and_append", l.s)
                  IN  IF v.r THEN ident_loop(WithS(l, v.s), buf \o v.bytes)
                      ELSE [lx |-> WithS(l, v.s), buf |-> buf, ok |-> FALSE]
             ELSE [lx |-> l, buf |-> buf, ok |-> TRUE]

read_ident(l) ==
    LET start   == Pos(l)
        res     == Call("ident_loop", l)
        lexeme  == CStr(res.buf)
        kind    == classify_ident(lexeme, res.lx.in_directive)
        end     == Pos(res.lx)
    IN  IF ~res.ok THEN [lx |-> res.lx, r |-> Tok("TOKEN_ERROR", start, end, lexeme)]
        ELSE [lx |-> IF kind /= "TOKEN_IDENTIFIER" THEN maybe_warn_ident_use(res.lx, lexeme)
                     ELSE res.lx,
              r |-> Tok(kind, start, end, lexeme)]

(***************************************************************************)
(* read_number.  n is the function's local state while it reads digits:    *)
(* [lx, buf, base, in_exp, at_seq_start, prev_was_digit, last_was_sep,     *)
(* used_quote_sep, used_underscore_sep, sep_err]; sep_err counts the       *)
(* "invalid placement for digit separator" diagnostics.  b is what the     *)
(* digits leave behind: [n, is_float, is_hex_float, used_bin,              *)
(* saw_hex_sig_digit, saw_p, saw_exp_digit, saw_dec_exp_digit].            *)
(***************************************************************************)
ToLower(c) == IF IsUpper(c) THEN c + 32 ELSE c
IsSep(c) == c = ord["'"] \/ c = ord["_"]
NPeek(n) == SPeek(n.lx.s)

\* the digit test shared by NEXT_IS_DIGIT_FOR_SEQ and PUSH_CHAR_RAW
DigitForSeq(n, c) ==
    IF n.in_exp THEN IsDigit(UChar(c))
    ELSE IF n.base = 2 THEN c = ord["0"] \/ c = ord["1"]
    ELSE IF n.base = 16 THEN IsXDigit(UChar(c))
    ELSE IsDigit(UChar(c))

PUSH_CHAR_RAW(n, c) ==
    [n EXCEPT !.buf = Append(@, UChar(c)), !.at_seq_start = FALSE,
              !.prev_was_digit = DigitForSeq(n, c), !.last_was_sep = FALSE]

HANDLE_SEP(n, ch) ==
    [n EXCEPT !.used_quote_sep = @ \/ ch = ord["'"],
              !.used_underscore_sep = @ \/ ch = ord["_"],
              !.sep_err = IF n.at_seq_start \/ n.last_was_sep
                             \/ ~DigitForSeq(n, NPeek(n)) \/ ~n.prev_was_digit
                          THEN @ + 1 ELSE @,
              !.last_was_sep = TRUE]

PUSH_DIGIT(n, c) == IF IsSep(c) THEN HANDLE_SEP(n, c) ELSE PUSH_CHAR_RAW(n, c)

\* PUSH_DIGIT(NEXT(lx)) and PUSH_CHAR_RAW(NEXT(lx)), c what NEXT(n.lx) returns
PushDigitOf(n, c) == PUSH_DIGIT([n EXCEPT !.lx = c.lx], c.r)
PushCharRawOf(n, c) == PUSH_CHAR_RAW([n EXCEPT !.lx = c.lx], c.r)
PUSH_DIGIT_NEXT(n) == PushDigitOf(n, NEXT(n.lx))
PUSH_CHAR_RAW_NEXT(n) == PushCharRawOf(n, NEXT(n.lx))

SeqStart(n) ==
    [n EXCEPT !.at_seq_start = TRUE, !.prev_was_digit = FALSE, !.last_was_sep = FALSE]

\* the digit tests of the loops: isxdigit, isdigit, or '0' and '1'
LoopDigit(cls, c) ==
    IF cls = "isxdigit" THEN IsXDigit(UChar(c))
    ELSE IF cls = "isdigit" THEN IsDigit(UChar(c))
    ELSE c = ord["0"] \/ c = ord["1"]

\* while (digit || '\'' || '_') PUSH_DIGIT(NEXT(lx)): returns [n, saw (a digit was seen)]
RECURSIVE digit_loop(_, _, _)
digit_loop(n, cls, saw) ==
    IF LoopDigit(cls, NPeek(n)) \/ IsSep(NPeek(n))
    THEN digit_loop(PUSH_DIGIT_NEXT(n), cls, saw \/ LoopDigit(cls, NPeek(n)))
    ELSE [n |-> n, saw |-> saw]

\* '.' and the digits after it, when the next character is '.': returns [n, saw, dot]
fraction_part(n, cls) ==
    IF NPeek(n) = ord["."]
    THEN [dot |-> TRUE] @@ Call("digit_loop", <<PUSH_DIGIT_NEXT(SeqStart(n)), cls>>)
    ELSE [n |-> n, saw |-> FALSE, dot |-> FALSE]

\* the sign after the exponent letter
exponent_sign(n) ==
    IF NPeek(n) = ord["+"] \/ NPeek(n) = ord["-"] THEN PUSH_CHAR_RAW_NEXT(n) ELSE n

\* the exponent letter, the sign and the exponent digits: returns [n, saw]
exponent_part(n) ==
    Call("digit_loop",
         <<Call("exponent_sign", PUSH_CHAR_RAW_NEXT(SeqStart([n EXCEPT !.in_exp = TRUE]))),
           "isdigit">>)

NumBody(n, f, hf, b, sig, p, e) ==
    [n |-> n, is_float |-> f, is_hex_float |-> hf, used_bin |-> b,
     saw_hex_sig_digit |-> sig, saw_p |-> p, saw_exp_digit |-> e,
     saw_dec_exp_digit |-> FALSE]

\* lines 1109-1125, after the hexadecimal digits h1 and the fraction fr
hex_exponent(h1, fr, ex) == NumBody(ex.n, TRUE, TRUE, FALSE, h1.saw \/ fr.saw, TRUE, ex.saw)

\* lines 1093-1126, after the hexadecimal digits h1
hex_fraction(h1, fr) ==
    IF NPeek(fr.n) = ord["p"] \/ NPeek(fr.n) = ord["P"]
    THEN hex_exponent(h1, fr, Call("exponent_part", fr.n))
    ELSE NumBody(fr.n, TRUE, TRUE, FALSE, h1.saw \/ fr.saw, FALSE, FALSE)

\* lines 1083-1126: h1 is what the loop over the hexadecimal digits returns
hex_digits(h1) ==
    IF NPeek(h1.n) \in {ord["."], ord["p"], ord["P"]}
    THEN hex_fraction(h1, Call("fraction_part", <<SeqStart(h1.n), "isxdigit">>))
    ELSE NumBody(h1.n, FALSE, FALSE, FALSE, h1.saw, FALSE, FALSE)

\* decimal digits and a fraction (lines 1138-1150, 1163-1175): d1 is what the loop returns
dec_digits(d1) ==
    LET fr == Call("fraction_part", <<d1.n, "isdigit">>)
    IN  NumBody(fr.n, fr.dot, FALSE, FALSE, FALSE, FALSE, FALSE)

\* lines 1082-1151: n1 is the state after the leading '0'
zero_prefix(n1) ==
    IF NPeek(n1) = ord["x"] \/ NPeek(n1) = ord["X"]
    THEN hex_digits(Call("digit_loop", <<PUSH_DIGIT_NEXT([n1 EXCEPT !.base = 16]), "isxdigit">>))
    ELSE IF NPeek(n1) = ord["b"] \/ NPeek(n1) = ord["B"]
    THEN NumBody(Call("digit_loop", <<SeqStart(PUSH_DIGIT_NEXT([n1 EXCEPT !.base = 2])), "01">>).n,
                 FALSE, FALSE, TRUE, FALSE, FALSE, FALSE)
    ELSE dec_digits(Call("digit_loop", <<n1, "isdigit">>))

\* the digits of the constant (lines 1076-1177)
number_body(l) ==
    LET n0 == [lx |-> l, buf |-> <<>>, base |-> 10, in_exp |-> FALSE, at_seq_start |-> TRUE,
               prev_was_digit |-> FALSE, last_was_sep |-> FALSE, used_quote_sep |-> FALSE,
               used_underscore_sep |-> FALSE, sep_err |-> 0]
    IN  IF PEEK(l) = ord["0"] THEN zero_prefix(SeqStart(PUSH_DIGIT_NEXT(n0)))
        ELSE IF PEEK(l) = ord["."] THEN dec_digits([n |-> n0, saw |-> FALSE])
        ELSE dec_digits(Call("digit_loop", <<n0, "isdigit">>))

\* the decimal exponent (lines 1179-1195)
number_exponent(b) ==
    IF ~b.is_hex_float /\ (NPeek(b.n) = ord["e"] \/ NPeek(b.n) = ord["E"])
    THEN LET ex == Call("exponent_part", b.n)
         IN  [b EXCEPT !.n = ex.n, !.is_float = TRUE, !.saw_dec_exp_digit = ex.saw]
    ELSE b

\* the loop reading a floating suffix: returns [lx, suf]
RECURSIVE float_suffix_loop(_, _)
float_suffix_loop(l, fsuf) ==
    IF AtEof(l) \/ Len(fsuf) >= 7 \/ ~IsAlnum(UChar(PEEK(l)))
       \/ PEEK(l) \in {ord["i"], ord["I"], ord["j"], ord["J"]}
    THEN [lx |-> l, suf |-> fsuf]
    ELSE float_suffix_loop(NEXT(l).lx, Append(fsuf, UChar(NEXT(l).r)))

\* the suffixes read_number accepts on a floating constant, lower case
FloatSuffixes ==
    { <<>>, <<"f">>, <<"l">>, <<"f", "1", "6">>, <<"f", "3", "2">>, <<"f", "6", "4">>,
      <<"f", "1", "2", "8">>, <<"f", "3", "2", "x">>, <<"f", "6", "4", "x">>,
      <<"f", "1", "2", "8", "x">>, <<"d", "f">>, <<"d", "d">>, <<"d", "l">> }

\* strchr("uUlL", c) is not null: the terminating NUL of the literal matches c = 0
InIntSuffixChars(c) == c \in {ord["u"], ord["U"], ord["l"], ord["L"], 0}

\* the loop reading an integer suffix: returns [lx, suf]
RECURSIVE int_suffix_loop(_, _)
int_suffix_loop(l, suf) ==
    IF ~AtEof(l) /\ InIntSuffixChars(PEEK(l))
    THEN int_suffix_loop(NEXT(l).lx, Append(suf, UChar(NEXT(l).r)))
    ELSE [lx |-> l, suf |-> suf]

valid_int_suffix(s) ==
    /\ \A i \in 1..Len(s) : s[i] \in {ord["u"], ord["U"], ord["l"], ord["L"]}
    /\ Cardinality({i \in 1..Len(s) : s[i] \in {ord["u"], ord["U"]}}) <= 1
    /\ Cardinality({i \in 1..Len(s) : s[i] \in {ord["l"], ord["L"]}}) <= 2

\* a sequence without its digit separators
RECURSIVE StripSeps(_)
StripSeps(q) ==
    IF q = <<>> THEN <<>>
    ELSE IF IsSep(Head(q)) THEN StripSeps(Tail(q))
    ELSE <<Head(q)>> \o StripSeps(Tail(q))

\* lines 1265-1419: span_end is span_num.end, l the lexer after the imaginary suffix,
\* suf the suffix as a C string; val is [num, suf, sep_err] for a constant
number_token(start, b, span_end, l, suf) ==
    IF ~b.is_float /\ ~valid_int_suffix(suf)
    THEN [lx |-> l, r |-> Tok("TOKEN_ERROR", start, Pos(l), NoVal)]
    ELSE IF b.is_hex_float /\ (~b.saw_p \/ ~b.saw_exp_digit \/ ~b.saw_hex_sig_digit)
    THEN [lx |-> l, r |-> Tok("TOKEN_ERROR", start, span_end, NoVal)]
    ELSE IF b.is_float /\ ~b.is_hex_float /\ b.n.in_exp /\ ~b.saw_dec_exp_digit
    THEN [lx |-> l, r |-> Tok("TOKEN_ERROR", start, span_end, NoVal)]
    ELSE IF ~b.is_float /\ b.used_bin /\ Len(StripSeps(CStr(b.n.buf))) <= 2
    THEN [lx |-> l, r |-> Tok("TOKEN_ERROR", start, Pos(l), NoVal)]
    ELSE [lx |-> l,
          r |-> Tok(IF b.is_float THEN "TOKEN_FLOATING_CONSTANT" ELSE "TOKEN_INTEGER_CONSTANT",
                    start, Pos(l),
                    [num |-> StripSeps(CStr(b.n.buf)), suf |-> suf, sep_err |-> b.n.sep_err])]

\* lines 1245-1254: the imaginary suffix; l is the lexer after the suffix
number_imag(start, b, l, suf) ==
    number_token(start, b, Pos(l),
                 IF PEEK(l) \in {ord["i"], ord["I"], ord["j"], ord["J"]} THEN NEXT(l).lx ELSE l,
                 suf)

\* lines 1197-1243: fs is what the loop over the suffix returns
number_suffix(start, b, fs) ==
    IF b.is_float
       /\ ~\E f \in FloatSuffixes : Codes(f) = CStr([i \in 1..Len(fs.suf) |-> ToLower(fs.suf[i])])
    THEN [lx |-> fs.lx, r |-> Tok("TOKEN_ERROR", start, Pos(fs.lx), NoVal)]
    ELSE number_imag(start, b, fs.lx,
                     IF b.is_float THEN CStr([i \in 1..Len(fs.suf) |-> ToLower(fs.suf[i])])
                     ELSE CStr(fs.suf))

\* the digits have been read: the suffix and the token
number_tail(start, b) ==
    number_suffix(start, b,
                  Call(IF b.is_float THEN "float_suffix_loop" ELSE "int_suffix_loop", b.n.lx))

\* returns [lx, r (the token)]
read_number(l) == number_tail(Pos(l), Call("number_exponent", Call("number_body", l)))

\* enum lit_kind; the value is also the rank lit_info_of gives the kind
LIT_PLAIN == 0
LIT_UTF8 == 1
LIT_UTF16 == 2
LIT_UTF32 == 3
LIT_WIDE == 4

lit_promote(a, b) == IF a >= b THEN a ELSE b

\* the number of bytes the first byte of a UTF-8 sequence announces, 0 for none
Utf8Need(first) ==
    IF first <= 127 THEN 1
    ELSE IF first >= 192 /\ first <= 223 THEN 2
    ELSE IF first >= 224 /\ first <= 239 THEN 3
    ELSE IF first >= 240 /\ first <= 247 THEN 4
    ELSE 0

\* the loop over the bytes of one sequence: returns [s, r (ok), cp]
RECURSIVE utf8_decode_loop(_, _, _, _)
utf8_decode_loop(s, i, need, cp) ==
    IF i >= need THEN [s |-> s, r |-> TRUE, cp |-> cp]
    ELSE IF streamer_eof(s) THEN [s |-> s, r |-> FALSE, cp |-> 0]
    ELSE IF i > 0 /\ ~(SPeek(s) >= 128 /\ SPeek(s) <= 191)
    THEN [s |-> SNext(s), r |-> FALSE, cp |-> 0]
    ELSE utf8_decode_loop(SNext(s), i + 1, need,
                          IF i = 0 THEN cp ELSE cp * 64 + (UChar(SPeek(s)) % 64))

\* the checks on the decoded value: overlong, surrogate, out of range
utf8_decode_check(need, res) ==
    IF ~res.r THEN res
    ELSE IF \/ (need = 2 /\ res.cp < 128) \/ (need = 3 /\ res.cp < 2048)
            \/ (need = 4 /\ res.cp < 65536) \/ (res.cp >= 55296 /\ res.cp <= 57343)
            \/ res.cp > 1114111
    THEN [s |-> res.s, r |-> TRUE, cp |-> 65533]
    ELSE res

\* returns [s, r (ok), cp]; first is the byte streamer_peek returns
utf8_decode_first(s, first) ==
    IF first < 0 THEN [s |-> s, r |-> FALSE, cp |-> 0]
    ELSE IF Utf8Need(first) = 0 THEN [s |-> SNext(s), r |-> FALSE, cp |-> 0]
    ELSE utf8_decode_check(Utf8Need(first),
             Call("utf8_decode_loop",
                  <<s, Utf8Need(first),
                    IF Utf8Need(first) = 1 THEN first
                    ELSE IF Utf8Need(first) = 2 THEN first - 192
                    ELSE IF Utf8Need(first) = 3 THEN first - 224
                    ELSE first - 240>>))

utf8_decode_one(s) == utf8_decode_first(s, SPeek(s))

\* up to two more octal digits: returns [lx, r]
RECURSIVE octal_loop(_, _, _)
octal_loop(l, code, cnt) ==
    IF cnt >= 3 \/ PEEK(l) < ord["0"] \/ PEEK(l) > ord["7"] THEN [lx |-> l, r |-> code]
    ELSE octal_loop(NEXT(l).lx, code * 8 + (NEXT(l).r - ord["0"]), cnt + 1)

\* the digits of a \x escape: returns [lx, r, cnt].  code is an int in the source.
RECURSIVE hex_loop(_, _, _)
hex_loop(l, code, cnt) ==
    IF IsXDigit(UChar(PEEK(l)))
    THEN hex_loop(NEXT(l).lx, code * 16 + HexVal(UChar(NEXT(l).r)), cnt + 1)
    ELSE [lx |-> l, r |-> code, cnt |-> cnt]

SimpleEscapes ==
    "a" :> 7 @@ "b" :> 8 @@ "f" :> 12 @@ "n" :> 10 @@ "r" :> 13 @@ "t" :> 9 @@ "v" :> 11 @@
    "\\" :> 92 @@ "'" :> 39 @@ "\"" :> 34 @@ "?" :> 63

\* the value of a \x escape: h is what the loop over its digits returns
hex_escape(h, lk) ==
    IF h.cnt = 0 THEN [lx |-> h.lx, r |-> 65533]
    ELSE IF lk /= LIT_PLAIN /\ (h.r > 1114111 \/ (h.r >= 55296 /\ h.r <= 57343))
    THEN [lx |-> h.lx, r |-> 65533]
    ELSE [lx |-> h.lx, r |-> h.r]

\* the value of a \u or \U escape: u is what the loop over its digits returns
ucn_escape(u, max) ==
    IF u.ok /\ (u.r > max \/ (u.r >= 55296 /\ u.r <= 57343))
    THEN [lx |-> u.lx, r |-> 65533]
    ELSE [lx |-> u.lx, r |-> u.r]

\* the switch of parse_escape: n is what NEXT(lx) returns
escape_switch(n, lk) ==
    IF \E k \in DOMAIN SimpleEscapes : ord[k] = n.r
    THEN [lx |-> n.lx, r |-> SimpleEscapes[CHOOSE k \in DOMAIN SimpleEscapes : ord[k] = n.r]]
    ELSE IF n.r >= ord["0"] /\ n.r <= ord["7"]
    THEN Call("octal_loop", <<n.lx, n.r - ord["0"]>>)
    ELSE IF n.r = ord["x"] THEN hex_escape(Call("hex_loop", n.lx), lk)
    ELSE IF n.r = ord["u"] THEN ucn_escape(Call("ucn_loop", <<n.lx, 4>>), CodeCap)
    ELSE IF n.r = ord["U"] THEN ucn_escape(Call("ucn_loop", <<n.lx, 8>>), 1114111)
    ELSE IF n.r = ord["e"] THEN [lx |-> n.lx, r |-> 27]
    ELSE [lx |-> n.lx, r |-> 65533]

\* returns [lx, r]
parse_escape(l, lk) == escape_switch(NEXT(l), lk)

\* a character of a literal that is neither the quote nor a backslash:
\* returns [lx, r (the code point pushed)]
literal_char(l, c, plain) ==
    IF plain THEN [lx |-> l, r |-> IF UChar(c) >= 128 THEN ord["?"] ELSE c]
    ELSE IF UChar(c) < 128 THEN [lx |-> l, r |-> c]
    ELSE LET d == Call("utf8_decode_one", SUnget(l.s))
         IN  [lx |-> WithS(l, d.s), r |-> IF d.r THEN d.cp ELSE 65533]

\* the loop over the body of a string literal: returns [lx, cps]
RECURSIVE string_body_loop(_, _, _)
string_body_loop(l, prefix, cps) ==
    IF AtEof(l) THEN [lx |-> l, cps |-> cps]
    ELSE LET n == NEXT(l)
         IN  IF n.r = ord["\""] THEN [lx |-> n.lx, cps |-> cps]
             ELSE IF n.r = ord["\\"]
             THEN LET e == Call("parse_escape", <<n.lx, prefix>>)
                  IN  string_body_loop(e.lx, prefix,
                          Append(cps, IF prefix = LIT_PLAIN THEN e.r % 256 ELSE e.r))
             ELSE LET ch == Call("literal_char", <<n.lx, n.r, prefix = LIT_PLAIN>>)
                  IN  string_body_loop(ch.lx, prefix, Append(cps, ch.r))

\* the kind of the literal that starts at the blob, -1 if none starts there
NextLitKind(b, q) ==
    IF Cache(b, 2) = q THEN LIT_PLAIN
    ELSE IF Cache(b, 2) = ord["u"] /\ Cache(b, 3) = ord["8"] /\ Cache(b, 4) = q THEN LIT_UTF8
    ELSE IF Cache(b, 2) = ord["u"] /\ Cache(b, 3) = q THEN LIT_UTF16
    ELSE IF Cache(b, 2) = ord["U"] /\ Cache(b, 3) = q THEN LIT_UTF32
    ELSE IF Cache(b, 2) = ord["L"] /\ Cache(b, 3) = q THEN LIT_WIDE
    ELSE -1

\* the characters of the prefix of a literal of the kind
PrefixLen(k) == IF k = LIT_UTF8 THEN 2 ELSE IF k = LIT_PLAIN THEN 0 ELSE 1

\* lines 1617-1621 and 1693-1698: the lexer and the count of "unterminated string
\* literal" diagnostics after the body of one literal
string_end(body, unterminated) ==
    IF AtEof(body.lx) /\ PEEK(body.lx) /= ord["\""]
    THEN [lx |-> Call("skip_to_safe_point", body.lx), cps |-> body.cps,
          unterminated |-> unterminated + 1, more |-> FALSE]
    ELSE [lx |-> body.lx, cps |-> body.cps, unterminated |-> unterminated, more |-> TRUE]

\* the concatenation loop (lines 1623-1699): returns [lx, prefix, cps, unterminated]
RECURSIVE string_concat_loop(_, _, _, _)
string_concat_piece(l1, prefix, cps, unterminated, next_kind, q) ==
    IF next_kind = -1
    THEN [lx |-> l1, prefix |-> prefix, cps |-> cps, unterminated |-> unterminated]
    ELSE IF q.r /= ord["\""]
    THEN [lx |-> q.lx, prefix |-> lit_promote(prefix, next_kind), cps |-> cps,
          unterminated |-> unterminated]
    ELSE LET e == string_end(Call("string_body_loop",
                                  <<q.lx, lit_promote(prefix, next_kind), cps>>), unterminated)
         IN  IF e.more
             THEN string_concat_loop(e.lx, lit_promote(prefix, next_kind), e.cps, e.unterminated)
             ELSE [lx |-> e.lx, prefix |-> lit_promote(prefix, next_kind), cps |-> e.cps,
                   unterminated |-> e.unterminated]

string_concat_at(l1, prefix, cps, unterminated, next_kind) ==
    string_concat_piece(l1, prefix, cps, unterminated, next_kind,
                        IF next_kind = -1 THEN [lx |-> l1, r |-> 0]
                        ELSE NEXT(NEXT_n(l1, PrefixLen(next_kind))))

string_concat_skipped(l1, prefix, cps, unterminated) ==
    string_concat_at(l1, prefix, cps, unterminated, NextLitKind(Blob(l1), ord["\""]))

string_concat_loop(l, prefix, cps, unterminated) ==
    string_concat_skipped(Call("skip_space_and_comments", l), prefix, cps, unterminated)

\* the token of read_string_literal (lines 1701-1824): val is [prefix, cps, unterminated],
\* unterminated the number of "unterminated string literal" diagnostics
string_token(start, cc) ==
    [lx |-> cc.lx,
     r |-> Tok("TOKEN_STRING_LITERAL", start, Pos(cc.lx),
               [prefix |-> cc.prefix, cps |-> cc.cps, unterminated |-> cc.unterminated])]

\* lines 1577-1699: the first literal and the ones concatenated to it
string_first(start, prefix, e) ==
    string_token(start, Call("string_concat_loop", <<e.lx, prefix, e.cps, e.unterminated>>))

\* lines 1571-1576: q is what NEXT(lx) returns after the prefix
string_open(start, prefix, q) ==
    IF q.r /= ord["\""] THEN [lx |-> q.lx, r |-> Tok("TOKEN_ERROR", start, Pos(q.lx), NoVal)]
    ELSE string_first(start, prefix,
                      string_end(Call("string_body_loop", <<q.lx, prefix, <<>>>>), 0))

string_prefixed(l, prefix) == string_open(Pos(l), prefix, NEXT(NEXT_n(l, PrefixLen(prefix))))

\* returns [lx, r (the token)]
read_string_literal(l) ==
    string_prefixed(l, IF AtEof(l) \/ NextLitKind(Blob(l), ord["\""]) = -1 THEN LIT_PLAIN
                       ELSE NextLitKind(Blob(l), ord["\""]))

\* the recovery loop after an invalid \x, \u or \U escape in a character literal
RECURSIVE bad_escape_loop(_)
bad_escape_loop(l) ==
    IF AtEof(l) THEN l
    ELSE IF PEEK(l) = ord["'"] THEN NEXT(l).lx
    ELSE IF PEEK(l) = ord["\n"] THEN l
    ELSE bad_escape_loop(NEXT(l).lx)

\* the loop over the body of a character literal: returns [lx, chars, out], out one of
\* "quote" (left at the closing quote or at end of file), "newline", "escape"
RECURSIVE char_body_loop(_, _, _)
char_body_loop(l, kind, chars) ==
    IF AtEof(l) THEN [lx |-> l, chars |-> chars, out |-> "quote"]
    ELSE LET n == NEXT(l)
             narrow == kind = LIT_PLAIN \/ kind = LIT_UTF8
         IN  IF n.r = ord["'"] THEN [lx |-> n.lx, chars |-> chars, out |-> "quote"]
             ELSE IF n.r = ord["\n"] THEN [lx |-> n.lx, chars |-> chars, out |-> "newline"]
             ELSE IF n.r = ord["\\"]
             THEN LET pk == PEEK(n.lx)
                      e  == Call("parse_escape", <<n.lx, IF narrow THEN LIT_PLAIN ELSE kind>>)
                  IN  IF e.r = 65533 /\ pk \in {ord["x"], ord["u"], ord["U"]}
                      THEN [lx |-> Call("bad_escape_loop", e.lx), chars |-> chars, out |-> "escape"]
                      ELSE char_body_loop(e.lx, kind,
                               Append(chars, IF narrow THEN e.r % 256 ELSE e.r))
             ELSE LET ch == Call("literal_char", <<n.lx, n.r, narrow>>)
                  IN  char_body_loop(ch.lx, kind, Append(chars, ch.r))

\* lines 1963-1964: the characters packed into a uint32_t, the first one highest; a
\* uint32_t is [hi, lo], its two halves of 16 bits
RECURSIVE char_pack(_, _)
char_pack(chars, v) ==
    IF chars = <<>> THEN v
    ELSE char_pack(Tail(chars),
                   [hi |-> ((v.hi * 256) + (v.lo \div 256)) % 65536,
                    lo |-> ((v.lo % 256) * 256) + (Head(chars) % 256)])

target_wchar_max(bits) ==
    IF bits = 8 THEN 255 ELSE IF bits = 16 THEN 65535 ELSE IF bits = 32 THEN 2147483647 ELSE 0

\* lines 1955-1999: the payload of the token, cp cut to the width of its field
char_value(kind, chars) ==
    LET cp   == IF Len(chars) > 1 THEN char_pack(chars, [hi |-> 0, lo |-> 0])
                ELSE [hi |-> chars[1] \div 65536, lo |-> chars[1] % 65536]
        fffd == [hi |-> 0, lo |-> 65533]
        gmax == target_wchar_max(ctx.wchar_bits)
        sc   == IF cp.hi > 16 \/ (cp.hi = 0 /\ cp.lo >= 55296 /\ cp.lo <= 57343) THEN fffd ELSE cp
    IN  IF kind = LIT_WIDE
        THEN IF sc.hi > gmax \div 65536 \/ (sc.hi = gmax \div 65536 /\ sc.lo > gmax % 65536)
             THEN fffd ELSE sc
        ELSE IF kind = LIT_UTF16 THEN [hi |-> 0, lo |-> cp.lo]
        ELSE IF kind = LIT_UTF32 THEN cp
        ELSE [hi |-> 0, lo |-> cp.lo % 256]

\* lines 1939-2003 of read_char_literal and its error returns: val is
\* [prefix, chars, value], value the payload as [hi, lo]
char_token(start, kind, body) ==
    IF body.out = "escape" \/ body.out = "newline" \/ AtEof(body.lx) \/ body.chars = <<>>
    THEN [lx |-> body.lx, r |-> Tok("TOKEN_ERROR", start, Pos(body.lx), NoVal)]
    ELSE [lx |-> body.lx,
          r |-> Tok("TOKEN_CHARACTER_CONSTANT", start, Pos(body.lx),
                    [prefix |-> kind, chars |-> body.chars,
                     value |-> char_value(kind, body.chars)])]

\* q is what NEXT(lx) returns after the prefix
char_open(start, kind, q) ==
    IF q.r /= ord["'"] THEN [lx |-> q.lx, r |-> Tok("TOKEN_ERROR", start, Pos(q.lx), NoVal)]
    ELSE char_token(start, kind, Call("char_body_loop", <<q.lx, kind>>))

char_prefixed(l, kind) == char_open(Pos(l), kind, NEXT(NEXT_n(l, PrefixLen(kind))))

\* returns [lx, r (the token)]
read_char_literal(l) ==
    char_prefixed(l, IF NextLitKind(Blob(l), ord["'"]) = -1 THEN LIT_PLAIN
                     ELSE NextLitKind(Blob(l), ord["'"]))

\* lexer_init on a file that opens
lexer_init ==
    LET s0   == streamer_open
        blob == streamer_get_blob(s0)
        bom  == Cache(blob, 2) = 239 /\ Cache(blob, 3) = 187 /\ Cache(blob, 4) = 191
    IN  [s |-> IF bom THEN [s_next_n(s0, 3) EXCEPT !.column = 0] ELSE s0,
         at_line_start |-> TRUE, in_directive |-> FALSE,
         pp_kind |-> "YECC_PP_NONE", expect_header_name |-> FALSE]

\* the test of lines 2121-2126 on the characters at the position
directive_hash(l) ==
    LET b == Blob(l)
        is_hash  == Cache(b, 2) = ord["#"]
        tri_hash == Cache(b, 2) = ord["?"] /\ Cache(b, 3) = ord["?"] /\ Cache(b, 4) = ord["="]
        dig_hash == Cache(b, 2) = ord["%"] /\ Cache(b, 3) = ord[":"]
    IN  is_hash \/ (ctx.enable_trigraphs /\ (tri_hash \/ dig_hash))

\* lines 2117-2135 find a directive's '#': l is the lexer after skip_space_and_comments
directive_at(l) == l.at_line_start /\ directive_hash(Call("skip_pp_hspace", l))

\* lexer_next called on l finds the '#' of a directive
starts_directive(l) == directive_at(Call("skip_space_and_comments", l))

\* lines 2137-2144
directive_newline(l) ==
    IF ~l.in_directive THEN l
    ELSE LET l1 == Call("skip_pp_hspace", l)
         IN  IF PEEK(l1) = ord["\n"]
             THEN [WithS(l1, SNext(l1.s))           EXCEPT !.at_line_start = TRUE,
                                                          !.in_directive = FALSE]
             ELSE l1

\* an end-of-file token that leaves the streamer rewound to the start of the file
eof_token_rewind(l) ==
    [lx |-> WithS(l, streamer_open), r |-> Tok("TOKEN_EOF", Pos(l), Pos(l), NoVal)]
\* lines 2146-2149: the token at the end of the file
eof_token(l) == [lx |-> l, r |-> Tok("TOKEN_EOF", Pos(l), Pos(l), NoVal)]

\* lines 2151-2195: the token at the position
dispatch(l) ==
    LET c   == PEEK(l)
        la  == Blob(l)
        notls == [l EXCEPT !.at_line_start = FALSE]
        hn  == l.in_directive /\ l.expect_header_name
        inc == l.pp_kind = "YECC_PP_INCLUDE" \/ l.pp_kind = "YECC_PP_INCLUDE_NEXT"
        emb == l.pp_kind = "YECC_PP_IMPORT" \/ l.pp_kind = "YECC_PP_EMBED"
        Clear(res) == [lx |-> [res.lx EXCEPT !.expect_header_name = FALSE], r |-> res.r]
        \* past the header-name test expect_header_name is false
        l2  == IF hn THEN [notls EXCEPT !.expect_header_name = FALSE] ELSE notls
        wide == c = ord["u"] \/ c = ord["U"] \/ c = ord["L"]
    IN  IF AtEof(l) THEN eof_token(l)
        ELSE IF IsDigit(UChar(c)) \/ (c = ord["."] /\ IsDigit(Cache(la, 3)))
        THEN Call("read_number", notls)
        ELSE IF hn /\ inc /\ c = ord["<"] THEN Clear(Call("read_header_name", l))
        ELSE IF hn /\ (inc \/ emb) /\ c = ord["\""] THEN Clear(Call("read_quoted_header_name", l))
        ELSE IF \/ c = ord["\""] \/ (wide /\ Cache(la, 3) = ord["\""])
                \/ (c = ord["u"] /\ Cache(la, 3) = ord["8"] /\ Cache(la, 4) = ord["\""])
        THEN Call("read_string_literal", l2)
        ELSE IF \/ c = ord["'"] \/ (wide /\ Cache(la, 3) = ord["'"])
                \/ (c = ord["u"] /\ Cache(la, 3) = ord["8"] /\ Cache(la, 4) = ord["'"])
        THEN Call("read_char_literal", l2)
        ELSE IF \/ IsAlpha(UChar(c)) \/ c = ord["_"] \/ UChar(c) >= 128
                \/ (ctx.gnu_extensions /\ c = ord["$"])
        THEN Call("read_ident", l2)
        ELSE Call("read_punctuator", l2)

\* lexer_next after its call of skip_space_and_comments
lexer_next_skipped(l1) ==
    IF directive_at(l1)
    THEN Call("read_punctuator",
              [Call("skip_pp_hspace", l1) EXCEPT !.at_line_start = FALSE, !.in_directive = TRUE,
                                                 !.pp_kind = "YECC_PP_NONE",
                                                 !.expect_header_name = FALSE])
    ELSE Call("dispatch",
              Call("directive_newline",
                   IF l1.at_line_start
                   THEN WithS(l1, Call("streamer_seek",
                                       <<Call("skip_pp_hspace", l1).s, l1.s.pos>>).s)
                   ELSE l1))

\* returns [lx, r (the token)]
lexer_next(l) == lexer_next_skipped(Call("skip_space_and_comments", l))

(***************************************************************************)
(* Call(f, a): the function named f called on the argument a.              *)
(***************************************************************************)
Call(f, a) ==
    CASE f = "streamer_peek" -> streamer_peek(a)
      [] f = "streamer_next" -> streamer_next(a)
      [] f = "streamer_unget" -> streamer_unget(a)
      [] f = "streamer_seek" -> streamer_seek(a[1], a[2])
      [] f = "skip_line_splice" -> skip_line_splice(a)
      [] f = "try_trigraph" -> try_trigraph(a)
      [] f = "streamer_next_preproc" -> streamer_next_preproc(a)
      [] f = "skip_pp_hspace" -> skip_pp_hspace(a)
      [] f = "peek_preproc" -> peek_preproc(a[1], a[2])
      [] f = "skip_to_safe_point" -> skip_to_safe_point(a)
      [] f = "ws_loop" -> ws_loop(a)
      [] f = "skip_space_and_comments" -> skip_space_and_comments(a)
      [] f = "consume_digraph_token" -> consume_digraph_token(a)
      [] f = "punct_scan" -> punct_scan(a)
      [] f = "read_punctuator" -> read_punctuator(a)
      [] f = "header_name_loop" -> header_name_loop(a, <<>>)
      [] f = "read_header_name" -> read_header_name(a)
      [] f = "quoted_header_name_loop" -> quoted_header_name_loop(a, <<>>)
      [] f = "read_quoted_header_name" -> read_quoted_header_name(a)
      [] f = "utf8_validate_and_append" -> utf8_validate_and_append(a)
      [] f = "ucn_loop" -> ucn_loop(a[1], a[2], 0)
      [] f = "parse_ucn" -> parse_ucn(a)
      [] f = "ident_loop" -> ident_loop(a, <<>>)
      [] f = "read_ident" -> read_ident(a)
      [] f = "digit_loop" -> digit_loop(a[1], a[2], FALSE)
      [] f = "fraction_part" -> fraction_part(a[1], a[2])
      [] f = "exponent_sign" -> exponent_sign(a)
      [] f = "exponent_part" -> exponent_part(a)
      [] f = "number_body" -> number_body(a)
      [] f = "number_exponent" -> number_exponent(a)
      [] f = "float_suffix_loop" -> float_suffix_loop(a, <<>>)
      [] f = "int_suffix_loop" -> int_suffix_loop(a, <<>>)
      [] f = "read_number" -> read_number(a)
      [] f = "utf8_decode_loop" -> utf8_decode_loop(a[1], 0, a[2], a[3])
      [] f = "utf8_decode_one" -> utf8_decode_one(a)
      [] f = "octal_loop" -> octal_loop(a[1], a[2], 1)
      [] f = "hex_loop" -> hex_loop(a, 0, 0)
      [] f = "parse_escape" -> parse_escape(a[1], a[2])
      [] f = "literal_char" -> literal_char(a[1], a[2], a[3])
      [] f = "string_body_loop" -> string_body_loop(a[1], a[2], a[3])
      [] f = "string_concat_loop" -> string_concat_loop(a[1], a[2], a[3], a[4])
      [] f = "bad_escape_loop" -> bad_escape_loop(a)
      [] f = "char_body_loop" -> char_body_loop(a[1], a[2], <<>>)
      [] f = "read_string_literal" -> read_string_literal(a)
      [] f = "read_char_literal" -> read_char_literal(a)
      [] f = "directive_newline" -> directive_newline(a)
      [] f = "dispatch" -> dispatch(a)
      [] f = "starts_directive" -> starts_directive(a)
      [] f = "lexer_next" -> lexer_next(a)

(***************************************************************************)
(* The lexer driven over a file: one lexer_next call per step.             *)
(* tok is the token the last call returned, prev_tok the one before it;    *)
(* call is [n (calls made), start (the offset the last call started at),   *)
(* dir (the offset after the '#' of the directive last entered, -1 when    *)
(* none was), eofs (the calls that returned TOKEN_EOF)].                   *)
(***************************************************************************)
MaxChunks == 3
\* calls made after the one that must have reached the end of the file
MaxExtraCalls == 1
\* calls made that return TOKEN_EOF
MaxEofCalls == 2

LexChunks ==
    { <<"#">>, <<"\n">>, <<" ">>, <<"a">>, <<"'">>, <<"\"">>, <<"\\">>, <<"1">>,
      <<"/">>, <<"?", "?", "=">> }

\* the concatenations of at most n chunks
RECURSIVE ChunkFiles(_)
ChunkFiles(n) ==
    IF n = 0 THEN {<<>>}
    ELSE LET shorter == ChunkFiles(n - 1)
         IN  shorter \cup {f \o Codes(c) : f \in shorter, c \in LexChunks}

NoTok == Tok("none", [line |-> 0, column |-> 0, offset |-> 0],
             [line |-> 0, column |-> 0, offset |-> 0], NoVal)
Idle == "idle"

LexerInit ==
    /\ file \in ChunkFiles(MaxChunks)
    /\ ctx \in [enable_trigraphs : BOOLEAN, gnu_extensions : {FALSE}, wchar_bits : {32}]
    /\ lx = lexer_init
    /\ tok = NoTok
    /\ prev_tok = NoTok
    /\ call = [n |-> 0, start |-> 0, dir |-> -1, eofs |-> 0]
    /\ st = Idle /\ st_hist = Idle /\ m = Idle /\ m_call = Idle /\ si = Idle /\ si_log = Idle

\* the lexer and the bookkeeping after a call that returned res; directive tells
\* whether the call found the '#' of a directive (lines 2117-2132)
LexerReturned(res, directive) ==
    /\ lx' = res.lx
    /\ tok' = res.r
    /\ prev_tok' = tok
    /\ call' = [n |-> call.n + 1, start |-> lx.s.pos,
                dir |-> IF directive THEN res.r.loc.end.offset ELSE call.dir,
                eofs |-> call.eofs + IF res.r.kind = "TOKEN_EOF" THEN 1 ELSE 0]
    /\ UNCHANGED <<file, ctx, st, st_hist, m, m_call, si, si_log>>

LexerNext ==
    /\ call.n <= FileLen + MaxExtraCalls
    /\ call.eofs < MaxEofCalls
    /\ LexerReturned(Call("lexer_next", lx), Call("starts_directive", lx))

SpecLexer == LexerInit /\ [][LexerNext]_vars

(***************************************************************************)
(* Properties of the lexer run.                                            *)
(***************************************************************************)
\* the last call returned a token that is not the end-of-file token
RealTok(t) == t.kind /= "none" /\ t.kind /= "TOKEN_EOF"

\* the byte at offset k is a newline that no backslash before it splices away
UnsplicedNewlineAt(k) ==
    /\ k >= 0 /\ k < FileLen /\ FileByte(k) = ord["\n"]
    /\ ~(k >= 1 /\ FileByte(k - 1) = ord["\\"])
    /\ ~(k >= 2 /\ FileByte(k - 1) = ord["\r"] /\ FileByte(k - 2) = ord["\\"])

\* no unspliced newline at the offsets a .. b-1
NoNewlineIn(a, b) == \A k \in a..(b - 1) : ~UnsplicedNewlineAt(k)

\* the bytes at offset o spell q
BytesAt(o, q) == o + Len(q) <= FileLen /\ \A i \in 1..Len(q) : FileByte(o + i - 1) = ord[q[i]]

\* the length of the spelling of '#' at offset o, 0 when none is there
HashLen(o) ==
    IF BytesAt(o, <<"#">>) THEN 1
    ELSE IF ctx.enable_trigraphs /\ BytesAt(o, <<"?", "?", "=">>) THEN 3
    ELSE IF ctx.enable_trigraphs /\ BytesAt(o, <<"%", ":">>) THEN 2
    ELSE 0

\* only spaces and tabs lie between offset o and the start of its line
FirstOnLine(o) ==
    \E b \in 0..o :
        /\ b = 0 \/ UnsplicedNewlineAt(b - 1)
        /\ \A k \in b..(o - 1) : FileByte(k) = ord[" "] \/ FileByte(k) = ord["\t"]

\* C1: every call of lexer_next returns; after at most |B| + 1 calls the token returned
\* is the end-of-file token, and whenever the end-of-file token is returned the
\* streamer's offset is |B|
C1_EofAfterAllBytes ==
    /\ call.n > FileLen => tok.kind = "TOKEN_EOF"
    /\ tok.kind = "TOKEN_EOF" => lx.s.pos = FileLen

\* the first end-of-file token of a file of three bytes or more, after a token
C1_Witness ==
    tok.kind = "TOKEN_EOF" /\ RealTok(prev_tok) /\ FileLen >= 3 /\ lx.s.pos = FileLen

\* C2: a call of lexer_next that returns a token other than the end-of-file token,
\* an ERROR token too, leaves the offset greater than the one it started at
C2_TokenAdvances == RealTok(tok) => lx.s.pos > call.start

\* an ERROR token returned by a call that was not the first
C2_Witness == tok.kind = "TOKEN_ERROR" /\ call.start > 0 /\ lx.s.pos > call.start

\* C5: a '#' (with enable_trigraphs also '??=' or '%:') that starts a token and has only
\* spaces and tabs between it and the preceding unspliced newline or the start of the
\* file, and no second '#' after it, is returned as the '#' token with in_directive set
C5_HashStartsDirective ==
    LET o == tok.loc.start.offset
    IN  (RealTok(tok) /\ HashLen(o) > 0 /\ HashLen(o + HashLen(o)) = 0 /\ FirstOnLine(o))
        => (tok.kind = "TOKEN_PP_HASH" /\ lx.in_directive)

\* a '#' on the second line of the file that was returned as the token of a directive
C5_Witness ==
    /\ tok.kind = "TOKEN_PP_HASH" /\ lx.in_directive
    /\ tok.loc.start.offset > 0 /\ FirstOnLine(tok.loc.start.offset)

\* C6: the first unspliced newline after the '#' of a directive ends it: in_directive
\* holds only while no such newline lies between the '#' and the position, and a token
\* that starts on the directive's line covers no byte after that newline
C6_NewlineEndsDirective ==
    /\ lx.in_directive => (call.dir >= 0 /\ NoNewlineIn(call.dir, lx.s.pos))
    /\ (RealTok(tok) /\ call.dir >= 0 /\ tok.loc.start.offset >= call.dir
        /\ NoNewlineIn(call.dir, tok.loc.start.offset))
       => NoNewlineIn(tok.loc.start.offset, tok.loc.end.offset - 1)

\* a directive whose newline has been read, the lexer back at the start of a line
C6_Witness ==
    /\ call.dir >= 0 /\ ~NoNewlineIn(call.dir, lx.s.pos)
    /\ ~lx.in_directive /\ lx.at_line_start

\* C7: of two tokens returned one after the other, neither the end-of-file token, the
\* first ends at or before the offset the second starts at
C7_SpansOrdered ==
    (RealTok(prev_tok) /\ RealTok(tok)) => prev_tok.loc.end.offset <= tok.loc.start.offset

\* two tokens with bytes the lexer skipped between them
C7_Witness ==
    RealTok(prev_tok) /\ RealTok(tok) /\ prev_tok.loc.end.offset < tok.loc.start.offset

\* C8: the call after one that returned the end-of-file token returns it again, and the
\* streamer's offset is still |B|
C8_EofIsFinal ==
    prev_tok.kind = "TOKEN_EOF" => (tok.kind = "TOKEN_EOF" /\ lx.s.pos = FileLen)

\* a second end-of-file token of a file that is not empty
C8_Witness == prev_tok.kind = "TOKEN_EOF" /\ tok.kind = "TOKEN_EOF" /\ FileLen > 0

(***************************************************************************)
(* The streamer driven directly: one streamer call per step.  st_hist      *)
(* keeps the last call (op, its return value r, the position before it)    *)
(* and the call before that one (op0, r0, before0).                        *)
(***************************************************************************)
MaxStreamLen == 3

\* the files of at most n bytes over a letter and the newline
StreamFiles(n) == UNION {[1..k -> {ord["a"], ord["\n"]}] : k \in 0..n}

\* st_hist after the call op that returned r
Logged(op, r) ==
    [op |-> op, r |-> r, before |-> streamer_position(st),
     op0 |-> st_hist.op, r0 |-> st_hist.r, before0 |-> st_hist.before]

StreamerInit ==
    /\ file \in StreamFiles(MaxStreamLen)
    /\ st = streamer_open
    /\ st_hist = [op |-> "open", r |-> TRUE, before |-> streamer_position(streamer_open),
                  op0 |-> "none", r0 |-> TRUE, before0 |-> streamer_position(streamer_open)]
    /\ ctx = Idle /\ lx = Idle /\ tok = Idle /\ prev_tok = Idle /\ call = Idle
    /\ m = Idle /\ m_call = Idle /\ si = Idle /\ si_log = Idle

\* the streamer and the history after the call op that returned res
StreamerDid(op, res) ==
    /\ st' = res.s
    /\ st_hist' = Logged(op, res.r)
    /\ UNCHANGED <<file, ctx, lx, tok, prev_tok, call, m, m_call, si, si_log>>

StreamerPeek == StreamerDid("peek", Call("streamer_peek", st))

StreamerNext == StreamerDid("next", Call("streamer_next", st))

StreamerUnget == StreamerDid("unget", Call("streamer_unget", st))

StreamerSeek ==
    \E offset \in 0..(FileLen + 1) : StreamerDid("seek", Call("streamer_seek", <<st, offset>>))

StreamerStep == StreamerPeek \/ StreamerNext \/ StreamerUnget \/ StreamerSeek

SpecStreamer == StreamerInit /\ [][StreamerStep]_vars

\* C4: streamer_next that returns a byte, followed by streamer_unget that succeeds,
\* leaves the offset, the line and the column that held before the streamer_next
C4_UngetInvertsNext ==
    (st_hist.op = "unget" /\ st_hist.r = TRUE /\ st_hist.op0 = "next" /\ st_hist.r0 >= 0)
    => streamer_position(st) = st_hist.before0

\* streamer_next read a newline and streamer_unget put it back
C4_Witness ==
    /\ st_hist.op = "unget" /\ st_hist.r = TRUE
    /\ st_hist.op0 = "next" /\ st_hist.r0 = ord["\n"]
    /\ st.pos = st_hist.before0.offset

(***************************************************************************)
(* The hash map (src/source/base/map.h).  A map is the record              *)
(* [capacity, size, graves, status, keys, values, hash, compare]: status,  *)
(* keys and values are sequences of capacity elements (bucket i of the C   *)
(* code is element i + 1), hash and compare name the functions map_init    *)
(* was given.  heap is the memory the pointers in the keys designate.      *)
(* malloc is taken to succeed.  A call that never leaves the loop of       *)
(* MAP_FIND has hang = TRUE in what the operator returns.                  *)
(***************************************************************************)
BUCKET_STATUS_EMPTY == 0
BUCKET_STATUS_GRAVE == 1
BUCKET_STATUS_FULL == 2
MAP_DEFAULT_CAPACITY == 16

\* the byte i of the object p points to: p is [buf] (the caller's buffer) or
\* [blk, off] (block blk of the arena, offset off); an arena block is zero-filled
Deref(heap, p, i) ==
    IF "buf" \in DOMAIN p THEN p.buf[i + 1]
    ELSE IF p.off + i < Len(heap[p.blk].data) THEN heap[p.blk].data[p.off + i + 1]
    ELSE 0

\* x ^ b on the low eight bits, bit by bit
Xor8(x, b) ==
    ((x + b) % 2) + 2 * (((x \div 2) + (b \div 2)) % 2)
    + 4 * (((x \div 4) + (b \div 4)) % 2) + 8 * (((x \div 8) + (b \div 8)) % 2)
    + 16 * (((x \div 16) + (b \div 16)) % 2) + 32 * (((x \div 32) + (b \div 32)) % 2)
    + 64 * (((x \div 64) + (b \div 64)) % 2) + 128 * (((x \div 128) + (b \div 128)) % 2)

\* the loop of si_hash_string over the bytes i .. stop - 1, on the low 16 bits of the
\* hash, which is all that hash % capacity reads (hash < 0 never holds: the test
\* has the hash evaluated at every step instead of at the end)
RECURSIVE si_hash_loop(_, _, _, _, _)
si_hash_loop(heap, sid, i, stop, hash) ==
    IF i >= stop \/ hash < 0 THEN hash
    ELSE si_hash_loop(heap, sid, i + 1, stop,
             (((hash - (hash % 256)) + Xor8(hash % 256, Deref(heap, sid.string, i))) * 435)
             % 65536)

\* the same loop run in stretches of 64 bytes
RECURSIVE si_hash_from(_, _, _, _)
si_hash_from(heap, sid, i, hash) ==
    IF i >= sid.len \/ hash < 0 THEN hash
    ELSE si_hash_from(heap, sid, i + 64,
                      si_hash_loop(heap, sid, i, IF i + 64 < sid.len THEN i + 64 ELSE sid.len,
                                   hash))

si_hash_string(heap, sid) == si_hash_from(heap, sid, 0, 8997)

si_compare_string(heap, a, b) ==
    a.len = b.len /\ \A i \in 0..(a.len - 1) : Deref(heap, a.string, i) = Deref(heap, b.string, i)

hash_u32(x) == x
cmp_u32(a, b) == a = b

\* (m)->hash(key) and (m)->compare(a, b)
MapHash(mp, heap, key) ==
    IF mp.hash = "si_hash_string" THEN si_hash_string(heap, key) ELSE hash_u32(key)
MapCompare(mp, heap, a, b) ==
    IF mp.compare = "si_compare_string" THEN si_compare_string(heap, a, b) ELSE cmp_u32(a, b)

\* map_init: nokey fills the arrays malloc returns, which are read only where FULL
map_init(cmp, hfn, nokey) ==
    [capacity |-> MAP_DEFAULT_CAPACITY, size |-> 0, graves |-> 0,
     status |-> [i \in 1..MAP_DEFAULT_CAPACITY |-> BUCKET_STATUS_EMPTY],
     keys |-> [i \in 1..MAP_DEFAULT_CAPACITY |-> nokey],
     values |-> [i \in 1..MAP_DEFAULT_CAPACITY |-> nokey],
     hash |-> hfn, compare |-> cmp]

\* the for (;;) of MAP_FIND: i the bucket, first_grave -1 for SIZE_MAX, probes the
\* buckets examined so far.  The loop changes nothing it reads but i and first_grave,
\* so once it has examined every bucket without leaving it never leaves.
RECURSIVE map_find_loop(_, _, _, _, _, _)
map_find_loop(mp, heap, key, i, first_grave, probes) ==
    IF probes >= mp.capacity
    THEN [idx |-> i, found |-> FALSE, probes |-> probes + 1, hang |-> TRUE]
    ELSE IF mp.status[i + 1] = BUCKET_STATUS_EMPTY
    THEN [idx |-> IF first_grave /= -1 THEN first_grave ELSE i, found |-> FALSE,
          probes |-> probes + 1, hang |-> FALSE]
    ELSE IF mp.status[i + 1] = BUCKET_STATUS_FULL /\ MapCompare(mp, heap, mp.keys[i + 1], key)
    THEN [idx |-> i, found |-> TRUE, probes |-> probes + 1, hang |-> FALSE]
    ELSE map_find_loop(mp, heap, key, (i + 1) % mp.capacity,
                       IF mp.status[i + 1] = BUCKET_STATUS_GRAVE /\ first_grave = -1
                       THEN i ELSE first_grave,
                       probes + 1)

MAP_FIND(mp, heap, key) ==
    map_find_loop(mp, heap, key, MapHash(mp, heap, key) % mp.capacity, -1, 0)

\* bucket idx of mp made FULL with the key and the value
MapStore(mp, idx, key, value) ==
    [mp EXCEPT !.keys[idx + 1] = key, !.values[idx + 1] = value,
              !.status[idx + 1] = BUCKET_STATUS_FULL, !.size = @ + 1]

\* the loop of MAP_RESIZE over the old buckets i .. old.capacity - 1
RECURSIVE map_resize_loop(_, _, _, _)
map_resize_loop(mp, heap, old, i) ==
    IF i >= old.capacity THEN mp
    ELSE IF old.status[i + 1] /= BUCKET_STATUS_FULL THEN map_resize_loop(mp, heap, old, i + 1)
    ELSE map_resize_loop(MapStore(mp, MAP_FIND(mp, heap, old.keys[i + 1]).idx,
                                  old.keys[i + 1], old.values[i + 1]),
                         heap, old, i + 1)

MAP_RESIZE(mp, heap, new_capacity) ==
    map_resize_loop([mp EXCEPT !.capacity = new_capacity, !.size = 0, !.graves = 0,
                              !.status = [i \in 1..new_capacity |-> BUCKET_STATUS_EMPTY],
                              !.keys = [i \in 1..new_capacity |-> mp.keys[1]],
                              !.values = [i \in 1..new_capacity |-> mp.values[1]]],
                    heap, mp, 0)

\* (size_t)(capacity * 0.75) and (size_t)(capacity * 0.2)
MAP_MAYBE_REHASH(mp, heap) ==
    IF mp.size > (mp.capacity * 3) \div 4 THEN MAP_RESIZE(mp, heap, mp.capacity * 2)
    ELSE IF mp.graves > mp.capacity \div 5 THEN MAP_RESIZE(mp, heap, mp.capacity)
    ELSE mp

\* map_put after its first MAP_FIND did not find the key and MAP_MAYBE_REHASH: mp is the
\* map rehashed, f what the second MAP_FIND returns
map_put_store(mp, f, key, value) ==
    [m |-> IF f.hang THEN mp
           ELSE MapStore([mp EXCEPT !.graves = IF mp.status[f.idx + 1] = BUCKET_STATUS_GRAVE
                                             THEN @ - 1 ELSE @],
                         f.idx, key, value),
     r |-> "MAP_PUT_NEW", probes |-> f.probes, hang |-> f.hang]

\* map_put after its first MAP_FIND did not find the key: mp is the map rehashed
map_put_new(mp, heap, key, value) == map_put_store(mp, MAP_FIND(mp, heap, key), key, value)

\* map_put after its first MAP_FIND returned f
map_put_found(mp, heap, f, key, value) ==
    IF f.hang THEN [m |-> mp, r |-> "none", probes |-> f.probes, hang |-> TRUE]
    ELSE IF f.found
    THEN [m |-> [mp EXCEPT !.values[f.idx + 1] = value], r |-> "MAP_PUT_OVERWRITE",
          probes |-> f.probes, hang |-> FALSE]
    ELSE map_put_new(MAP_MAYBE_REHASH(mp, heap), heap, key, value)

\* returns [mp, r, probes (the buckets the last MAP_FIND examined), hang]
map_put(mp, heap, key, value) == map_put_found(mp, heap, MAP_FIND(mp, heap, key), key, value)

\* map_get and map_contains: r is [found, value]
map_get_found(mp, f) ==
    [m |-> mp, r |-> [found |-> f.found /\ ~f.hang, value |-> mp.values[f.idx + 1]],
     probes |-> f.probes, hang |-> f.hang]

map_get(mp, heap, key) == map_get_found(mp, MAP_FIND(mp, heap, key))

map_contains(mp, heap, key) == map_get_found(mp, MAP_FIND(mp, heap, key))

\* a map_remove that marks the grave without counting it
map_remove_uncounted(mp, f) ==
    [m |-> IF f.found /\ ~f.hang
           THEN [mp EXCEPT !.status[f.idx + 1] = BUCKET_STATUS_GRAVE, !.size = @ - 1]
           ELSE mp,
     r |-> f.found /\ ~f.hang, probes |-> f.probes, hang |-> f.hang]

map_remove_found(mp, f) ==
    [m |-> IF f.found /\ ~f.hang
           THEN [mp EXCEPT !.status[f.idx + 1] = BUCKET_STATUS_GRAVE, !.size = @ - 1,
                          !.graves = @ + 1]
           ELSE mp,
     r |-> f.found /\ ~f.hang, probes |-> f.probes, hang |-> f.hang]

map_remove(mp, heap, key) == map_remove_found(mp, MAP_FIND(mp, heap, key))

\* map_clear: every bucket EMPTY, the arrays keep what they hold
map_clear(mp) ==
    [m |-> [mp EXCEPT !.status = [i \in 1..mp.capacity |-> BUCKET_STATUS_EMPTY],
                     !.size = 0, !.graves = 0],
     r |-> TRUE, probes |-> 0, hang |-> FALSE]

(***************************************************************************)
(* The arena (src/source/arena.c) and the string interner                  *)
(* (src/source/base/string_intern.c).  An arena is [block_size, blocks];   *)
(* a block is [capacity, used, data], data the bytes of the block up to    *)
(* used (the rest of the block is the zeroes make_block wrote); the        *)
(* current block is the last one.  A C string is the sequence of its bytes *)
(* with the terminating zero.                                              *)
(***************************************************************************)
ALIGNMENT == 8

align_up(n) == ((n + (ALIGNMENT - 1)) \div ALIGNMENT) * ALIGNMENT

make_block(min_size) == [capacity |-> align_up(min_size), used |-> 0, data |-> <<>>]

arena_init(default_size) ==
    [block_size |-> IF default_size > 0 THEN default_size ELSE 1024,
     blocks |-> <<make_block(IF default_size > 0 THEN default_size ELSE 1024)>>]

Zeroes(n) == [i \in 1..n |-> 0]

\* an arena_alloc that hands out the start of the current block again
arena_alloc_reused(arena, size) ==
    [arena |-> [arena EXCEPT !.blocks[Len(arena.blocks)].used =
                                 IF @ < align_up(size) THEN align_up(size) ELSE @,
                             !.blocks[Len(arena.blocks)].data =
                                 IF Len(@) < align_up(size) THEN Zeroes(align_up(size)) ELSE @],
     r |-> [blk |-> Len(arena.blocks), off |-> 0]]

\* returns [arena, r (the pointer [blk, off])]
arena_alloc(arena, size) ==
    IF arena.blocks[Len(arena.blocks)].used + align_up(size)
           <= arena.blocks[Len(arena.blocks)].capacity
    THEN [arena |-> [arena EXCEPT !.blocks[Len(arena.blocks)].used = @ + align_up(size),
                                  !.blocks[Len(arena.blocks)].data = @ \o Zeroes(align_up(size))],
          r |-> [blk |-> Len(arena.blocks), off |-> arena.blocks[Len(arena.blocks)].used]]
    ELSE [arena |-> [arena EXCEPT !.blocks =
                        Append(@, [capacity |-> align_up(IF align_up(size) > arena.block_size
                                                         THEN align_up(size) ELSE arena.block_size),
                                   used |-> align_up(size), data |-> Zeroes(align_up(size))])],
          r |-> [blk |-> Len(arena.blocks) + 1, off |-> 0]]

\* the index of the first zero byte of the C string
strlen(s) == CHOOSE n \in 0..(Len(s) - 1) : s[n + 1] = 0 /\ \A i \in 1..n : s[i] /= 0

\* the memcpy of arena_strdup: n bytes of s to the pointer p
ArenaCopy(arena, p, s, n) ==
    [arena EXCEPT !.blocks[p.blk].data =
        SubSeq(@, 1, p.off) \o SubSeq(s, 1, n) \o SubSeq(@, p.off + n + 1, Len(@))]

\* returns [arena, r (the pointer to the copy)]
arena_strdup(arena, s) ==
    [arena |-> ArenaCopy(arena_alloc(arena, strlen(s) + 1).arena,
                         arena_alloc(arena, strlen(s) + 1).r, s, strlen(s) + 1),
     r |-> arena_alloc(arena, strlen(s) + 1).r]

\* arena_destroy: the blocks are freed and the struct zeroed
arena_destroy(arena) == [block_size |-> 0, blocks |-> <<>>]

\* map_destroy: the arrays are freed and the struct zeroed (keys = <<>> is keys == nullptr)
map_destroy(mp) ==
    [capacity |-> 0, size |-> 0, graves |-> 0, status |-> <<>>, keys |-> <<>>, values |-> <<>>,
     hash |-> "nullptr", compare |-> "nullptr"]

\* the interner is [arena, map, ndebug, epoch]: ndebug tells whether the build compiles the
\* asserts out, epoch counts the calls of intern_destroy.  intern_static is the pair of
\* zero-initialised statics string_intern_arena and string_intern_map at program start
intern_static(ndebug) ==
    [arena |-> [block_size |-> 0, blocks |-> <<>>],
     map |-> [capacity |-> 0, size |-> 0, graves |-> 0, status |-> <<>>, keys |-> <<>>,
              values |-> <<>>, hash |-> "nullptr", compare |-> "nullptr"],
     ndebug |-> ndebug, epoch |-> 0]

intern_init(i) ==
    [i EXCEPT !.arena = IF i.arena.blocks = <<>> THEN arena_init(4096) ELSE @,
              !.map = IF i.map.keys = <<>>
                      THEN map_init("si_compare_string", "si_hash_string",
                                    [string |-> [buf |-> <<0>>], len |-> 0])
                      ELSE @]

intern_destroy(i) ==
    [i EXCEPT !.map = map_destroy(i.map), !.arena = arena_destroy(i.arena), !.epoch = @ + 1]

\* intern_n after map_get did not find the probe: d is what arena_strdup returned,
\* p what map_put returned.  out is "new", "abort" (an assert failed) or "hang"
intern_n_put(i, d, p) ==
    IF p.hang THEN [si |-> i, r |-> d.r, out |-> "hang"]
    ELSE IF p.r = "MAP_PUT_OVERWRITE" /\ ~i.ndebug
    THEN [si |-> [i EXCEPT !.arena = d.arena], r |-> d.r, out |-> "abort"]
    ELSE [si |-> [i EXCEPT !.arena = d.arena, !.map = p.m], r |-> d.r, out |-> "new"]

intern_n_new(i, d, len) ==
    intern_n_put(i, d, map_put(i.map, d.arena.blocks, [string |-> d.r, len |-> len], d.r))

\* intern_n after map_get returned g
intern_n_found(i, g, str, len) ==
    IF g.hang THEN [si |-> i, r |-> g.r.value, out |-> "hang"]
    ELSE IF g.r.found THEN [si |-> i, r |-> g.r.value, out |-> "found"]
    ELSE intern_n_new(i, arena_strdup(i.arena, str), len)

\* the null pointer
NullPtr == [blk |-> 0, off |-> 0]

\* returns [si, r (the pointer returned), out].  With the map of the statics, or the
\* map after map_destroy, the MAP_FIND of map_get calls the null pointer m->hash and
\* takes the hash modulo the capacity 0: undefined behaviour, out = "ub"
intern_n(i, str, len) ==
    IF i.map.hash = "nullptr" THEN [si |-> i, r |-> NullPtr, out |-> "ub"]
    ELSE intern_n_found(i, map_get(i.map, i.arena.blocks,
                                   [string |-> [buf |-> str], len |-> len]),
                        str, len)

intern(i, str) == intern_n(i, str, strlen(str))

(***************************************************************************)
(* The map driven as src/tests/test_map.c drives it: keys are uint32_t     *)
(* hashed by hash_u32, the value put with a key is the key, keys are put   *)
(* in increasing order and removed oldest first, every eighth key is put   *)
(* again with another value and a key just removed is put again, and       *)
(* map_clear is called late.  m is the map, m_call the last call:          *)
(* [op, key, r, probes, returned, fresh, dict, was, graves], probes the    *)
(* buckets its last MAP_FIND examined, returned FALSE when the call is     *)
(* still inside MAP_FIND, fresh the least key never put, dict the          *)
(* dictionary the calls that returned describe (the value last put with    *)
(* each key put and not removed since), was whether the key was in dict    *)
(* when the call was made, graves the graves field when it was made.       *)
(***************************************************************************)
MaxKey == 16
\* the keys never put that are left when map_clear is called
MaxAfterClear == 2

Present(mp) == { mp.keys[i] : i \in { j \in 1..mp.capacity : mp.status[j] = BUCKET_STATUS_FULL } }

\* the least key present, the one put first
Oldest(mp) == { k \in Present(mp) : \A o \in Present(mp) : k <= o }

Fresh == { k \in 0..MaxKey : k = m_call.fresh }

\* the key the last call removed
Removed == { k \in 0..MaxKey : m_call.op = "remove" /\ m_call.returned /\ m_call.r /\ k = m_call.key }

MapInit ==
    /\ m = map_init("cmp_u32", "hash_u32", 0)
    /\ m_call = [op |-> "init", key |-> 0, r |-> TRUE, probes |-> 0, returned |-> TRUE,
                 fresh |-> 0, dict |-> <<>>, was |-> FALSE, graves |-> 0]
    /\ file = Idle /\ ctx = Idle /\ lx = Idle /\ tok = Idle /\ prev_tok = Idle
    /\ call = Idle /\ st = Idle /\ st_hist = Idle /\ si = Idle /\ si_log = Idle

\* the dictionary d with the key k bound to v, and without the key k
DictPut(d, k, v) == [x \in DOMAIN d \cup {k} |-> IF x = k THEN v ELSE d[x]]
DictRemove(d, k) == [x \in DOMAIN d \ {k} |-> d[x]]

\* the value put with a key: the key, or the key + MaxKey + 1 where the key is bound to itself
PutValue(key) ==
    IF key \in DOMAIN m_call.dict /\ m_call.dict[key] = key THEN key + MaxKey + 1 ELSE key

\* the call op(key) made on m, res what the operator of the call returns, d the
\* dictionary after the call when it returns
MapCalled(op, key, res, d) ==
    /\ m_call.returned
    /\ m' = res.m
    /\ m_call' = [op |-> op, key |-> key, r |-> res.r, probes |-> res.probes,
                  returned |-> ~res.hang,
                  fresh |-> IF op = "put" /\ key = m_call.fresh /\ ~res.hang
                            THEN m_call.fresh + 1 ELSE m_call.fresh,
                  dict |-> IF res.hang THEN m_call.dict ELSE d,
                  was |-> key \in DOMAIN m_call.dict, graves |-> m.graves]
    /\ UNCHANGED <<file, ctx, lx, tok, prev_tok, call, st, st_hist, si, si_log>>

MapPut ==
    \E key \in Fresh \cup { k \in Oldest(m) : k % 8 = 0 } \cup Removed :
        MapCalled("put", key, map_put(m, <<>>, key, PutValue(key)),
                  DictPut(m_call.dict, key, PutValue(key)))

MapRemove ==
    \E key \in Fresh \cup Oldest(m) :
        MapCalled("remove", key, map_remove(m, <<>>, key), DictRemove(m_call.dict, key))

MapGet == \E key \in Fresh \cup Oldest(m) : MapCalled("get", key, map_get(m, <<>>, key), m_call.dict)

MapContains ==
    \E key \in Fresh \cup Oldest(m) :
        MapCalled("contains", key, map_contains(m, <<>>, key), m_call.dict)

MapClear ==
    /\ m.size + m.graves > 0
    /\ m_call.fresh + MaxAfterClear > MaxKey
    /\ MapCalled("clear", 0, map_clear(m), <<>>)

MapStep == MapPut \/ MapRemove \/ MapGet \/ MapContains \/ MapClear

SpecMap == MapInit /\ [][MapStep]_vars

\* C3: every map_get, map_contains, map_put and map_remove call made after a
\* sequence of puts and removes returns, and its MAP_FIND examines at most as many
\* buckets as the map has, one full cycle.
C3_MapCallsTerminate == m_call.returned /\ m_call.probes <= m.capacity

\* a lookup of a key that is not in the map, on a map that has seen removes, returns
C3_Witness ==
    /\ m_call.op = "get" /\ m_call.returned /\ ~m_call.r.found
    /\ m.graves > 0 /\ m.size > 0

\* the buckets of m with the status
Buckets(status) == { i \in 1..m.capacity : m.status[i] = status }

\* C13: the map behaves as the dictionary its calls describe: every call returns,
\* map_get(k) finds k exactly when the dictionary binds it and then returns the value
\* last put with it, map_put returns MAP_PUT_OVERWRITE exactly when the key was bound
\* and MAP_PUT_NEW otherwise, and size is the number of keys bound.
C13_MapRefinesDictionary ==
    /\ m_call.returned
    /\ m.size = Cardinality(DOMAIN m_call.dict)
    /\ m_call.op = "put" => m_call.r = IF m_call.was THEN "MAP_PUT_OVERWRITE" ELSE "MAP_PUT_NEW"
    /\ m_call.op = "get" =>
           /\ m_call.r.found = (m_call.key \in DOMAIN m_call.dict)
           /\ m_call.r.found => m_call.r.value = m_call.dict[m_call.key]

\* a key put twice and looked up after a doubling of the map
C13_Witness ==
    /\ m_call.op = "get" /\ m_call.returned /\ m_call.r.found
    /\ m_call.r.value = m_call.key + MaxKey + 1 /\ m.capacity > MAP_DEFAULT_CAPACITY

\* C14: when a map_put has returned, size is at most three quarters of capacity.
C14_LoadFactorSustained ==
    (m_call.op = "put" /\ m_call.returned) => 4 * m.size <= 3 * m.capacity

\* a map_put that returned MAP_PUT_NEW
C14_Witness == m_call.op = "put" /\ m_call.returned /\ m_call.r = "MAP_PUT_NEW" /\ m.size > 1

\* C15: size is the number of FULL buckets and graves the number of GRAVE buckets.
C15_CountsMatchBuckets ==
    /\ m.size = Cardinality(Buckets(BUCKET_STATUS_FULL))
    /\ m.graves = Cardinality(Buckets(BUCKET_STATUS_GRAVE))

\* a map_put has reused a grave: graves is one less than when it was called
C15_Witness ==
    /\ m_call.op = "put" /\ m_call.returned /\ m_call.r = "MAP_PUT_NEW"
    /\ m_call.graves > 0 /\ m.graves = m_call.graves - 1
    /\ m.graves = Cardinality(Buckets(BUCKET_STATUS_GRAVE))

(***************************************************************************)
(* The interner driven by intern_init, intern, intern_n and                *)
(* intern_destroy, from the zero-initialised statics of program start.     *)
(* si is the interner, si_log the calls of intern and intern_n made:       *)
(* [str, len, r, out, init, epoch], str the C string passed, len the       *)
(* length passed (strlen(str) for intern), r the pointer returned, init    *)
(* whether the interner was initialised when the call began, epoch the     *)
(* number of intern_destroy calls before it.                               *)
(***************************************************************************)
MaxStrLen == 2
MaxInternCalls == 2
MaxDestroys == 1

SiBytes == {ord["a"], 0}

\* the C strings of at most MaxStrLen bytes before their terminating zero
SiStrings == { Append(c, 0) : c \in UNION { [1..k -> SiBytes] : k \in 0..MaxStrLen } }

InternInit ==
    /\ \E ndebug \in BOOLEAN : si = intern_static(ndebug)
    /\ si_log = <<>>
    /\ file = Idle /\ ctx = Idle /\ lx = Idle /\ tok = Idle /\ prev_tok = Idle
    /\ call = Idle /\ st = Idle /\ st_hist = Idle /\ m = Idle /\ m_call = Idle

\* the program is still running: no assert failed, no call hangs and none has run
\* into undefined behaviour
SiRunning == \A i \in 1..Len(si_log) : si_log[i].out \in {"found", "new"}

\* what a call whose operator returns out can do: undefined behaviour is the trap of
\* the null call ("crash") or a return of an indeterminate pointer ("wild")
Outcomes(out) == IF out = "ub" THEN {"crash", "wild"} ELSE {out}

InternCalled(str, len, res) ==
    /\ Len(si_log) < MaxInternCalls
    /\ SiRunning
    /\ si' = res.si
    /\ \E out \in Outcomes(res.out) :
           si_log' = Append(si_log, [str |-> str, len |-> len, r |-> res.r, out |-> out,
                                     init |-> si.map.keys /= <<>>, epoch |-> si.epoch])
    /\ UNCHANGED <<file, ctx, lx, tok, prev_tok, call, st, st_hist, m, m_call>>

Intern == \E str \in SiStrings : InternCalled(str, strlen(str), intern(si, str))

InternN ==
    \E str \in SiStrings : \E len \in 0..(Len(str) - 1) :
        InternCalled(str, len, intern_n(si, str, len))

InternInitCall ==
    /\ SiRunning
    /\ si' = intern_init(si)
    /\ UNCHANGED <<si_log, file, ctx, lx, tok, prev_tok, call, st, st_hist, m, m_call>>

InternDestroy ==
    /\ SiRunning
    /\ si.epoch < MaxDestroys
    /\ si' = intern_destroy(si)
    /\ UNCHANGED <<si_log, file, ctx, lx, tok, prev_tok, call, st, st_hist, m, m_call>>

InternStep == Intern \/ InternN \/ InternInitCall \/ InternDestroy

SpecIntern == InternInit /\ [][InternStep]_vars

\* the calls that returned a pointer into the arena as it is now
Live == { k \in 1..Len(si_log) : si_log[k].out \in {"found", "new"} /\ si_log[k].epoch = si.epoch
                                 /\ si.arena.blocks /= <<>> }

\* the byte sequence a call interns: the first len bytes of str
ByteSeq(e) == SubSeq(e.str, 1, e.len)

\* C9: every call returns a pointer, and two calls return the same pointer exactly
\* when the byte sequences they were given are equal in length and content.
C9_SamePointerIffEqualBytes ==
    /\ \A i \in 1..Len(si_log) : si_log[i].init => si_log[i].out \in {"found", "new"}
    /\ \A i, j \in Live :
           (si_log[i].r = si_log[j].r) <=> (ByteSeq(si_log[i]) = ByteSeq(si_log[j]))

\* two calls given the same bytes return the same pointer, the second from the map
C9_Witness ==
    /\ Len(si_log) = 2 /\ si_log[2].out = "found" /\ si_log[1].out = "new"
    /\ si_log[1].epoch = si_log[2].epoch
    /\ si_log[1].r = si_log[2].r /\ ByteSeq(si_log[1]) = ByteSeq(si_log[2])
    /\ si_log[1].len > 0

\* C10: the pointer intern_n returns designates a copy of exactly the first len bytes
\* of str: the len bytes there are those of str and the byte after them is zero.
C10_CopyOfFirstLenBytes ==
    \A i \in Live :
            /\ \A k \in 0..(si_log[i].len - 1) :
                   Deref(si.arena.blocks, si_log[i].r, k) = si_log[i].str[k + 1]
            /\ Deref(si.arena.blocks, si_log[i].r, si_log[i].len) = 0

\* a call with the zero byte at index len gets a copy of those len bytes
C10_Witness ==
    /\ 1 \in Live /\ si_log[1].out = "new" /\ si_log[1].len = 2
    /\ si_log[1].str[3] = 0
    /\ \A k \in 0..1 : Deref(si.arena.blocks, si_log[1].r, k) = ord["a"]

\* C11: a call of intern or intern_n made with the interner not initialised (no
\* intern_init yet, or none since the last intern_destroy) completes and returns a
\* pointer to an interned string.
C11_InternInitialisesItself ==
    \A k \in 1..Len(si_log) :
        ~si_log[k].init => (si_log[k].out \in {"found", "new"} /\ si_log[k].r /= NullPtr)

\* after intern_destroy and a new intern_init a call interns its string afresh
C11_Witness ==
    /\ Len(si_log) = 2 /\ si_log[2].init /\ si_log[2].epoch = 1 /\ si_log[2].out = "new"
    /\ si_log[1].epoch = 0 /\ si_log[1].out = "new"

(***************************************************************************)
(* The interner made to grow: after intern_init, intern is called with     *)
(* fresh strings, short ones ("a", "aa", ...) that fill the map until it   *)
(* doubles and a long one ("b" repeated) that nearly fills the 4096-byte   *)
(* block of the arena, so that arena_alloc adds a block for a later or an  *)
(* earlier string, and with the string interned last.  A call that makes   *)
(* an entry is logged in si_log with copy, the C string its pointer        *)
(* designated when it returned.                                            *)
(***************************************************************************)
MaxShort == 14

\* the C string of n bytes c
Repeat(c, n) == [i \in 1..(n + 1) |-> IF i <= n THEN c ELSE 0]

\* the long string: its copy leaves 88 bytes of a fresh block
Long == Repeat(ord["b"], 4000)

\* the C string at the pointer p, with its terminating zero
CStrAt(heap, p) ==
    [i \in 1..((CHOOSE n \in 0..(heap[p.blk].used - p.off - 1) :
                    Deref(heap, p, n) = 0 /\ \A k \in 0..(n - 1) : Deref(heap, p, k) /= 0) + 1)
        |-> Deref(heap, p, i - 1)]

Shorts == { k \in 1..Len(si_log) : si_log[k].str[1] = ord["a"] }
Longs == { k \in 1..Len(si_log) : si_log[k].str[1] = ord["b"] }

GrowInit ==
    /\ \E ndebug \in BOOLEAN : si = intern_init(intern_static(ndebug))
    /\ si_log = <<>>
    /\ file = Idle /\ ctx = Idle /\ lx = Idle /\ tok = Idle /\ prev_tok = Idle
    /\ call = Idle /\ st = Idle /\ st_hist = Idle /\ m = Idle /\ m_call = Idle

\* intern(str) called, res what it returns; the call is logged when it made an entry
GrowReturned(str, res) ==
    /\ si' = res.si
    /\ si_log' = IF res.out = "found" THEN si_log
                 ELSE Append(si_log, [str |-> str, len |-> strlen(str), r |-> res.r,
                                      out |-> res.out, init |-> TRUE, epoch |-> si.epoch,
                                      copy |-> CStrAt(res.si.arena.blocks, res.r)])
    /\ UNCHANGED <<file, ctx, lx, tok, prev_tok, call, st, st_hist, m, m_call>>

GrowCalled(str) == SiRunning /\ \E res \in {intern(si, str)} : GrowReturned(str, res)

GrowInternShort ==
    /\ Cardinality(Shorts) < MaxShort
    /\ GrowCalled(Repeat(ord["a"], Cardinality(Shorts) + 1))

GrowInternLong == Longs = {} /\ GrowCalled(Long)

\* the string interned last is interned again
GrowInternAgain == si_log /= <<>> /\ GrowCalled(si_log[Len(si_log)].str)

GrowStep == GrowInternShort \/ GrowInternLong \/ GrowInternAgain

SpecInternGrow == GrowInit /\ [][GrowStep]_vars

\* C12: every pointer a call returned still designates bytes inside a block of the
\* arena, and they are the bytes it designated when the call returned, after every
\* later call, those that add a block to the arena or double the map included.
C12_PointersStayValid ==
    \A k \in 1..Len(si_log) :
        /\ si_log[k].r.blk \in 1..Len(si.arena.blocks)
        /\ si_log[k].r.off + Len(si_log[k].copy) <= si.arena.blocks[si_log[k].r.blk].used
        /\ \A i \in 1..Len(si_log[k].copy) :
               Deref(si.arena.blocks, si_log[k].r, i - 1) = si_log[k].copy[i]
        /\ si_log[k].copy = si_log[k].str

\* the arena has added a block and the map has doubled since the first call returned
C12_Witness ==
    /\ Len(si.arena.blocks) >= 2 /\ si.map.capacity > MAP_DEFAULT_CAPACITY
    /\ Len(si_log) > MAP_DEFAULT_CAPACITY \div 2
    /\ si_log[1].r.blk = 1 /\ si_log[Len(si_log)].r.blk >= 2
    /\ CStrAt(si.arena.blocks, si_log[1].r) = si_log[1].copy

(***************************************************************************)
(* The lexer driven over files made of directive names, header names and   *)
(* keywords: one lexer_next call per step, as in SpecLexer.                *)
(***************************************************************************)
MaxPPChunks == 3

PPChunks ==
    { <<"#", "i", "n", "c", "l", "u", "d", "e">>,
      <<"#", "i", "n", "c", "l", "u", "d", "e", "_", "n", "e", "x", "t">>,
      <<"#", "i", "m", "p", "o", "r", "t">>,
      <<"<", "a">>, <<">">>, <<"\n">>, <<" ">>, <<"#">>, <<"i", "f">>,
      <<"d", "e", "f", "i", "n", "e">> }

\* the concatenations of at most n chunks
RECURSIVE PPFiles(_)
PPFiles(n) ==
    IF n = 0 THEN {<<>>}
    ELSE LET shorter == PPFiles(n - 1)
         IN  shorter \cup {f \o Codes(c) : f \in shorter, c \in PPChunks}

LexerPPInit ==
    /\ file \in PPFiles(MaxPPChunks)
    /\ ctx \in [enable_trigraphs : BOOLEAN, gnu_extensions : {FALSE}, wchar_bits : {32}]
    /\ lx = lexer_init
    /\ tok = NoTok
    /\ prev_tok = NoTok
    /\ call = [n |-> 0, start |-> 0, dir |-> -1, eofs |-> 0]
    /\ st = Idle /\ st_hist = Idle /\ m = Idle /\ m_call = Idle /\ si = Idle /\ si_log = Idle

SpecLexerPP == LexerPPInit /\ [][LexerNext]_vars

\* the offsets after o, on the line of o, that hold '>'
ClosersAfter(o) ==
    { g \in (o + 1)..(FileLen - 1) :
          FileByte(g) = ord[">"] /\ \A k \in (o + 1)..g : FileByte(k) /= ord["\n"] }

\* the bytes of the file at the offsets a .. b - 1
FileBytes(a, b) == [i \in 1..(b - a) |-> FileByte(a + i - 1)]

\* the token returned starts with '<', on the line of an include-like directive name
\* that was the token before it, and a '>' follows on the line
HeaderNameDue ==
    /\ is_include_like(prev_tok.kind) /\ RealTok(tok)
    /\ tok.loc.start.offset < FileLen /\ FileByte(tok.loc.start.offset) = ord["<"]
    /\ \A k \in prev_tok.loc.end.offset..(tok.loc.start.offset - 1) : FileByte(k) = ord[" "]
    /\ ClosersAfter(tok.loc.start.offset) /= {}

\* C16: after the name of an include-like directive (include, include_next, import) a
\* '<' that begins the next token makes it one TOKEN_HEADER_NAME whose payload is the
\* bytes up to the next '>', and the token ends after that '>'.
C16_HeaderNameAfterIncludeLike ==
    HeaderNameDue =>
        /\ tok.kind = "TOKEN_HEADER_NAME"
        /\ tok.val = FileBytes(tok.loc.start.offset + 1, MinOf(ClosersAfter(tok.loc.start.offset)))
        /\ tok.loc.end.offset = MinOf(ClosersAfter(tok.loc.start.offset)) + 1

\* the header name of an #include
C16_Witness ==
    /\ HeaderNameDue /\ prev_tok.kind = "TOKEN_PP_INCLUDE" /\ tok.kind = "TOKEN_HEADER_NAME"
    /\ tok.val = Codes(<<"a">>)

\* the entries of KW_TABLE named as the token returned is spelled, and those of them
\* that are directive entries
TokHits == KwHits(tok.val)
TokPPHits == { i \in TokHits : KW_TABLE[i][3] }

\* the token returned is one read_ident made: an identifier or a kind of KW_TABLE
IdentTok == tok.kind = "TOKEN_IDENTIFIER" \/ \E i \in 1..Len(KW_TABLE) : KW_TABLE[i][2] = tok.kind

\* C17: a spelling with directive entries only is TOKEN_IDENTIFIER when in_directive is
\* false and has its directive kind when in_directive is true; a spelling with both
\* kinds of entry has the kind of its directive entry exactly when in_directive is true.
C17_KeywordFollowsDirectiveContext ==
    (IdentTok /\ TokPPHits /= {}) =>
        IF lx.in_directive THEN tok.kind = KW_TABLE[MinOf(TokPPHits)][2]
        ELSE IF TokHits = TokPPHits THEN tok.kind = "TOKEN_IDENTIFIER"
        ELSE tok.kind = KW_TABLE[MinOf(TokHits \ TokPPHits)][2]

\* "if" lexed as the name of a directive
C17_Witness ==
    /\ IdentTok /\ tok.val = Codes(<<"i", "f">>) /\ lx.in_directive /\ tok.kind = "TOKEN_PP_IF"
    /\ RealTok(prev_tok) /\ prev_tok.loc.end.offset = tok.loc.start.offset

(***************************************************************************)
(* Properties of the string and character literals of the lexer run.       *)
(***************************************************************************)
\* the token returned is a string or character literal that starts with the quote q
LiteralFrom(q) ==
    /\ tok.kind \in {"TOKEN_STRING_LITERAL", "TOKEN_CHARACTER_CONSTANT"}
    /\ tok.loc.start.offset < FileLen /\ FileByte(tok.loc.start.offset) = q

\* the offsets inside the token returned that hold an unspliced newline with no
\* quote q between the opening quote and it
BodyNewlines(q) ==
    { k \in (tok.loc.start.offset + 1)..(tok.loc.end.offset - 1) :
          /\ UnsplicedNewlineAt(k)
          /\ \A j \in (tok.loc.start.offset + 1)..(k - 1) : FileByte(j) /= q }

\* C18: no string or character literal token covers a raw newline that comes before
\* the closing quote of its body; a newline there ends the literal with an error.
C18_NewlineEndsLiteral ==
    \A q \in {ord["'"], ord["\""]} : LiteralFrom(q) => BodyNewlines(q) = {}

\* a character literal cut by a newline, returned as an ERROR token
C18_Witness ==
    /\ tok.kind = "TOKEN_ERROR" /\ tok.loc.start.offset < FileLen
    /\ FileByte(tok.loc.start.offset) = ord["'"]
    /\ UnsplicedNewlineAt(tok.loc.end.offset - 1)
    /\ tok.loc.end.offset - tok.loc.start.offset >= 3

\* the offsets of a closing quote after the quote at o, letters and digits only and at
\* least one between the two
PlainCloser(o) ==
    { g \in (o + 2)..(FileLen - 1) :
          /\ FileByte(g) = ord["'"]
          /\ \A k \in (o + 1)..(g - 1) : IsAlpha(FileByte(k)) \/ IsDigit(FileByte(k)) }

\* the token returned starts at the opening quote of a character literal that has its
\* closing quote
CharLiteralDue ==
    /\ RealTok(tok) /\ tok.loc.start.offset < FileLen
    /\ FileByte(tok.loc.start.offset) = ord["'"]
    /\ PlainCloser(tok.loc.start.offset) /= {}

\* C19: a character literal of letters and digits that has its closing quote is one
\* TOKEN_CHARACTER_CONSTANT that ends after the closing quote, also when that quote is
\* the last byte of the file; its characters are the bytes between the quotes and its
\* payload is them packed first byte highest and cut to a char, the last byte.
C19_ClosedCharIsConstant ==
    CharLiteralDue =>
        /\ tok.kind = "TOKEN_CHARACTER_CONSTANT"
        /\ tok.loc.end.offset = MinOf(PlainCloser(tok.loc.start.offset)) + 1
        /\ tok.val.chars = FileBytes(tok.loc.start.offset + 1,
                                     MinOf(PlainCloser(tok.loc.start.offset)))
        /\ tok.val.value = [hi |-> 0, lo |-> FileByte(MinOf(PlainCloser(tok.loc.start.offset)) - 1)]

(***************************************************************************)
(* The lexer driven over a numeric constant and then over the same         *)
(* constant with a line splice in it: lexer_next is called once on the     *)
(* file, then lexer_init is called on the file with a backslash-newline    *)
(* put between two of its bytes and lexer_next goes on from there.  After  *)
(* the first call on the second file, tok is its first token and prev_tok  *)
(* the first token of the file without the splice.                        *)
(***************************************************************************)
\* the chunks after the first digit
MaxNumChunks == 2

NumChunks == { <<"1">>, <<"0">>, <<"x">>, <<".">>, <<"e">>, <<"u">> }

\* the concatenations of one digit and at most n chunks
RECURSIVE NumFiles(_)
NumFiles(n) ==
    IF n = 0 THEN {Codes(<<"1">>), Codes(<<"0">>)}
    ELSE LET shorter == NumFiles(n - 1)
         IN  shorter \cup {f \o Codes(c) : f \in shorter, c \in NumChunks}

\* the file has a line splice in it
HasSplice == \E k \in 0..(FileLen - 2) : BytesAt(k, <<"\\", "\n">>)

LexerSpliceInit ==
    /\ file \in NumFiles(MaxNumChunks)
    /\ ctx \in [enable_trigraphs : BOOLEAN, gnu_extensions : {FALSE}, wchar_bits : {32}]
    /\ lx = lexer_init
    /\ tok = NoTok
    /\ prev_tok = NoTok
    /\ call = [n |-> 0, start |-> 0, dir |-> -1, eofs |-> 0]
    /\ st = Idle /\ st_hist = Idle /\ m = Idle /\ m_call = Idle /\ si = Idle /\ si_log = Idle

\* lexer_init on the file with a splice after its byte p, after the first token of the
\* file without it
LexerSpliced ==
    /\ call.n = 1 /\ ~HasSplice
    /\ \E p \in 1..(FileLen - 1) :
           file' = SubSeq(file, 1, p) \o Codes(<<"\\", "\n">>) \o SubSeq(file, p + 1, FileLen)
    /\ UNCHANGED <<ctx, tok, prev_tok, call, st, st_hist, m, m_call, si, si_log>>
    /\ lx' = lexer_init'

LexerSpliceStep == LexerNext \/ LexerSpliced

SpecLexerSplice == LexerSpliceInit /\ [][LexerSpliceStep]_vars

\* tok is the first token of the file with the splice and prev_tok the first token of
\* the file without it, a numeric constant that is the whole of that file
SplicedConstant ==
    /\ HasSplice /\ call.n = 2
    /\ prev_tok.kind \in {"TOKEN_INTEGER_CONSTANT", "TOKEN_FLOATING_CONSTANT"}
    /\ prev_tok.loc.start.offset = 0 /\ prev_tok.loc.end.offset = FileLen - 2

\* C20: a numeric constant with a backslash-newline between two of its characters is
\* lexed as one token that covers the constant and has the kind, the digits (value and
\* base) and the suffix of the token lexed from the constant without the splice.
C20_SpliceInsideNumber ==
    SplicedConstant =>
        /\ tok.kind = prev_tok.kind
        /\ tok.val.num = prev_tok.val.num /\ tok.val.suf = prev_tok.val.suf
        /\ tok.loc.start.offset = 0 /\ tok.loc.end.offset = FileLen

\* the first token of a constant with a splice in it has been returned
C20_Witness == SplicedConstant /\ RealTok(tok) /\ FileLen >= 5

(***************************************************************************)
(* The lexer driven over a file to its end and then over the same file     *)
(* with a line splice at a token boundary.  call is here                   *)
(* [n, start, dir, eofs, log, first, spliced]: log the tokens the calls on *)
(* the file have returned, first the tokens returned on the file without   *)
(* the splice, spliced whether lexer_init has been called on the file with *)
(* the splice.                                                             *)
(***************************************************************************)
MaxBoundaryChunks == 3

BoundaryChunks == { <<"a">>, <<" ">>, <<"+">>, <<"1">>, <<"\n">> }

\* the concatenations of at most n chunks
RECURSIVE BoundaryFiles(_)
BoundaryFiles(n) ==
    IF n = 0 THEN {<<>>}
    ELSE LET shorter == BoundaryFiles(n - 1)
         IN  shorter \cup {f \o Codes(c) : f \in shorter, c \in BoundaryChunks}

LexerBoundaryInit ==
    /\ file \in BoundaryFiles(MaxBoundaryChunks)
    /\ ctx \in [enable_trigraphs : BOOLEAN, gnu_extensions : {FALSE}, wchar_bits : {32}]
    /\ lx = lexer_init
    /\ tok = NoTok
    /\ prev_tok = NoTok
    /\ call = [n |-> 0, start |-> 0, dir |-> -1, eofs |-> 0, log |-> <<>>, first |-> <<>>,
               spliced |-> FALSE]
    /\ st = Idle /\ st_hist = Idle /\ m = Idle /\ m_call = Idle /\ si = Idle /\ si_log = Idle

\* the lexer and the bookkeeping after a call that returned res
LexerLogged(res) ==
    /\ lx' = res.lx
    /\ tok' = res.r
    /\ prev_tok' = tok
    /\ call' = [call EXCEPT !.n = @ + 1, !.start = lx.s.pos,
                            !.eofs = @ + IF res.r.kind = "TOKEN_EOF" THEN 1 ELSE 0,
                            !.log = Append(@, res.r)]
    /\ UNCHANGED <<file, ctx, st, st_hist, m, m_call, si, si_log>>

\* lexer_next called until it returns the end-of-file token
LexerNextLogged ==
    /\ call.eofs = 0
    /\ call.n <= FileLen + MaxExtraCalls
    /\ LexerLogged(Call("lexer_next", lx))

\* no token of the log has the offset p inside it
TokenBoundary(p) ==
    \A i \in 1..Len(call.log) :
        ~(call.log[i].loc.start.offset < p /\ p < call.log[i].loc.end.offset)

\* lexer_init on the file with a splice at a token boundary, after the end-of-file
\* token of the file without it
LexerBoundarySpliced ==
    /\ call.eofs = 1 /\ ~call.spliced
    /\ \E p \in { q \in 0..FileLen : TokenBoundary(q) } :
           file' = SubSeq(file, 1, p) \o Codes(<<"\\", "\n">>) \o SubSeq(file, p + 1, FileLen)
    /\ call' = [n |-> 0, start |-> 0, dir |-> -1, eofs |-> 0, log |-> <<>>,
                first |-> call.log, spliced |-> TRUE]
    /\ tok' = NoTok /\ prev_tok' = NoTok
    /\ UNCHANGED <<ctx, st, st_hist, m, m_call, si, si_log>>
    /\ lx' = lexer_init'

LexerBoundaryStep == LexerNextLogged \/ LexerBoundarySpliced

SpecLexerBoundary == LexerBoundaryInit /\ [][LexerBoundaryStep]_vars

\* the kinds and payloads of a sequence of tokens
Payloads(q) == [i \in 1..Len(q) |-> [kind |-> q[i].kind, val |-> q[i].val]]

\* C21: the file with a backslash-newline at a token boundary yields the kinds and
\* payloads the file without it yields, up to the end-of-file token.
C21_SpliceAtBoundary ==
    (call.spliced /\ tok.kind = "TOKEN_EOF") => Payloads(call.log) = Payloads(call.first)

\* a splice between two tokens that touch, absorbed
C21_Witness ==
    /\ call.spliced /\ tok.kind = "TOKEN_EOF" /\ Len(call.first) >= 3
    /\ Payloads(call.log) = Payloads(call.first)
    /\ \E k \in 1..(FileLen - 2) : BytesAt(k, <<"\\", "\n">>) /\ FileByte(k - 1) /= ord[" "]

(***************************************************************************)
(* The lexer driven over a decimal digit followed by letters: one          *)
(* lexer_next call per step, as in SpecLexer.                              *)
(***************************************************************************)
MaxSuffixLetters == 3

SuffixLetters == { "u", "U", "l", "L", "a" }

\* the digit 1 followed by at most n letters
RECURSIVE SuffixFiles(_)
SuffixFiles(n) ==
    IF n = 0 THEN {Codes(<<"1">>)}
    ELSE LET shorter == SuffixFiles(n - 1)
         IN  shorter \cup {f \o Codes(<<c>>) : f \in shorter, c \in SuffixLetters}

LexerSuffixInit ==
    /\ file \in SuffixFiles(MaxSuffixLetters)
    /\ ctx \in [enable_trigraphs : BOOLEAN, gnu_extensions : {FALSE}, wchar_bits : {32}]
    /\ lx = lexer_init
    /\ tok = NoTok
    /\ prev_tok = NoTok
    /\ call = [n |-> 0, start |-> 0, dir |-> -1, eofs |-> 0]
    /\ st = Idle /\ st_hist = Idle /\ m = Idle /\ m_call = Idle /\ si = Idle /\ si_log = Idle

SpecLexerSuffix == LexerSuffixInit /\ [][LexerNext]_vars

\* the letters of the file, which follow its digit
LetterRun == SubSeq(file, 2, FileLen)

\* the letters are u, U, l, L only, at most one u or U and at most two l or L
RunIsSuffix ==
    /\ \A i \in 1..Len(LetterRun) : LetterRun[i] \in {ord["u"], ord["U"], ord["l"], ord["L"]}
    /\ Cardinality({ i \in 1..Len(LetterRun) : LetterRun[i] \in {ord["u"], ord["U"]} }) <= 1
    /\ Cardinality({ i \in 1..Len(LetterRun) : LetterRun[i] \in {ord["l"], ord["L"]} }) <= 2

\* C22: the first token of a digit followed by letters is the integer constant with
\* the letters as its suffix when they are u, U, l, L only with at most one u/U and at
\* most two l/L, and an ERROR token otherwise.
C22_IntegerSuffixRun ==
    call.n = 1 =>
        IF RunIsSuffix
        THEN /\ tok.kind = "TOKEN_INTEGER_CONSTANT" /\ tok.loc.end.offset = FileLen
             /\ tok.val.suf = CStr(LetterRun)
        ELSE tok.kind = "TOKEN_ERROR"

\* a suffix of three letters accepted with the u between the two l
C22_Witness ==
    /\ call.n = 1 /\ tok.kind = "TOKEN_INTEGER_CONSTANT" /\ FileLen = 4
    /\ LetterRun[2] = ord["u"] /\ tok.loc.end.offset = FileLen

(***************************************************************************)
(* The lexer driven over integer constants with digit separators: a file   *)
(* is the digit 0 or 1 followed by digits, separators and the letters of   *)
(* the base prefixes; one lexer_next call per step, as in SpecLexer.       *)
(***************************************************************************)
MaxSepChunks == 4

SepChunks == { "1", "8", "'", "x", "b" }

\* the digit 0 or 1 followed by at most n of the characters
RECURSIVE SepFiles(_)
SepFiles(n) ==
    IF n = 0 THEN {Codes(<<"0">>), Codes(<<"1">>)}
    ELSE LET shorter == SepFiles(n - 1)
         IN  shorter \cup {f \o Codes(<<c>>) : f \in shorter, c \in SepChunks}

LexerSepInit ==
    /\ file \in SepFiles(MaxSepChunks)
    /\ ctx \in [enable_trigraphs : BOOLEAN, gnu_extensions : {FALSE}, wchar_bits : {32}]
    /\ lx = lexer_init
    /\ tok = NoTok
    /\ prev_tok = NoTok
    /\ call = [n |-> 0, start |-> 0, dir |-> -1, eofs |-> 0]
    /\ st = Idle /\ st_hist = Idle /\ m = Idle /\ m_call = Idle /\ si = Idle /\ si_log = Idle

SpecLexerSep == LexerSepInit /\ [][LexerNext]_vars

\* the base the spelling of the token returned has: 16 after 0x, 2 after 0b, 8 after
\* a 0 that is not the whole of it, 10 otherwise
SpelledBase ==
    IF BytesAt(0, <<"0", "x">>) THEN 16
    ELSE IF BytesAt(0, <<"0", "b">>) THEN 2
    ELSE IF BytesAt(0, <<"0">>) /\ tok.loc.end.offset > 1 THEN 8
    ELSE 10

\* the byte at offset k is inside the token returned and is a digit of its base
BaseDigitAt(k) ==
    /\ k >= 0 /\ k < tok.loc.end.offset
    /\ IF SpelledBase = 16 THEN IsXDigit(FileByte(k))
       ELSE IF SpelledBase = 2 THEN FileByte(k) \in {ord["0"], ord["1"]}
       ELSE IF SpelledBase = 8 THEN FileByte(k) \in ord["0"]..ord["7"]
       ELSE IsDigit(FileByte(k))

\* the separators of the token returned that are not between two digits of its base
MisplacedSeps ==
    { k \in 0..(tok.loc.end.offset - 1) :
          IsSep(FileByte(k)) /\ ~(BaseDigitAt(k - 1) /\ BaseDigitAt(k + 1)) }

\* C23: the integer constant returned first has a digit-separator error reported
\* exactly when one of its separators is not between two digits of its base.
C23_SeparatorErrorIffMisplaced ==
    (call.n = 1 /\ tok.kind = "TOKEN_INTEGER_CONSTANT")
        => ((tok.val.sep_err > 0) <=> (MisplacedSeps /= {}))

\* a hexadecimal constant with a separator between two digits, and no error
C23_Witness ==
    /\ call.n = 1 /\ tok.kind = "TOKEN_INTEGER_CONSTANT" /\ SpelledBase = 16
    /\ tok.val.sep_err = 0 /\ MisplacedSeps = {}
    /\ \E k \in 0..(tok.loc.end.offset - 1) : IsSep(FileByte(k))

(***************************************************************************)
(* The concatenation pass (src/source/lex/string_concat.c).  A token is    *)
(* [kind, flags, val, loc]; the payload val of a string literal is the     *)
(* sequence of the code units of its array, without the terminating zero.  *)
(* The units of a wide literal are wchar_t objects of the build, host bits *)
(* wide and stored low half first; beyond is what the memory after the     *)
(* terminating wchar_t holds, as 16-bit units, for the reads that run past *)
(* it.  A code point above 0x10FFFF is kept as 0x110000 plus its low byte, *)
(* which is all that the sinks read of it.                                 *)
(***************************************************************************)
ctx_wchar_bits(c) == IF c.wchar_bits /= 0 THEN c.wchar_bits ELSE 32

\* unit_bits of lit_info_of; the rank of a kind is its value
concat_unit_bits(k, c) ==
    IF k = LIT_PLAIN \/ k = LIT_UTF8 THEN 8
    ELSE IF k = LIT_UTF16 THEN 16
    ELSE IF k = LIT_UTF32 THEN 32
    ELSE ctx_wchar_bits(c)

\* a promotion by rank alone
concat_lit_promote_ranked(a, b, c) == IF a >= b THEN a ELSE b

\* lit_promote of string_concat.c
concat_lit_promote(a, b, c) ==
    LET r    == IF a >= b THEN a ELSE b
        need == IF concat_unit_bits(a, c) >= concat_unit_bits(b, c)
                THEN concat_unit_bits(a, c) ELSE concat_unit_bits(b, c)
    IN  IF concat_unit_bits(r, c) < need
        THEN IF need >= 32 THEN LIT_UTF32 ELSE IF need = 16 THEN LIT_UTF16 ELSE r
        ELSE r

tok_kind_from_flags(t) ==
    IF "TOKEN_FLAG_STR_UTF32" \in t.flags THEN LIT_UTF32
    ELSE IF "TOKEN_FLAG_STR_UTF16" \in t.flags THEN LIT_UTF16
    ELSE IF "TOKEN_FLAG_STR_UTF8" \in t.flags THEN LIT_UTF8
    ELSE IF "TOKEN_FLAG_STR_WIDE" \in t.flags THEN LIT_WIDE
    ELSE LIT_PLAIN

\* the flag finalize_into_token stamps for the kind
StrFlag(k) ==
    IF k = LIT_UTF8 THEN "TOKEN_FLAG_STR_UTF8"
    ELSE IF k = LIT_UTF16 THEN "TOKEN_FLAG_STR_UTF16"
    ELSE IF k = LIT_UTF32 THEN "TOKEN_FLAG_STR_UTF32"
    ELSE IF k = LIT_WIDE THEN "TOKEN_FLAG_STR_WIDE"
    ELSE "TOKEN_FLAG_STR_PLAIN"

\* cp, or U+FFFD when cp is no Unicode scalar value
Scalar(cp) == IF cp > 1114111 \/ (cp >= 55296 /\ cp <= 57343) THEN 65533 ELSE cp

\* the units the encoders append for one code point
u8_units(cp) ==
    IF cp <= 127 THEN <<cp>>
    ELSE IF cp <= 2047 THEN <<192 + (cp \div 64), 128 + (cp % 64)>>
    ELSE IF cp <= 65535 THEN <<224 + (cp \div 4096), 128 + ((cp \div 64) % 64), 128 + (cp % 64)>>
    ELSE <<240 + (cp \div 262144), 128 + ((cp \div 4096) % 64), 128 + ((cp \div 64) % 64),
           128 + (cp % 64)>>

u8_append(cp) == u8_units(Scalar(cp))

u16_append(cp) ==
    IF Scalar(cp) <= 65535 THEN <<Scalar(cp)>>
    ELSE <<55296 + ((Scalar(cp) - 65536) \div 1024), 56320 + ((Scalar(cp) - 65536) % 1024)>>

u32_append(cp) == <<Scalar(cp)>>

\* (wchar_t)x on a build whose wchar_t is host bits wide
WcharOf(x, host) == IF host = 16 THEN x % 65536 ELSE x

w_append(c, host, cp) ==
    IF ctx_wchar_bits(c) = 8 THEN <<WcharOf(IF cp > 255 THEN 65533 ELSE cp % 256, host)>>
    ELSE IF ctx_wchar_bits(c) = 16
    THEN [i \in DOMAIN u16_append(cp) |-> WcharOf(u16_append(cp)[i], host)]
    ELSE <<WcharOf(Scalar(cp), host)>>

\* sink_append: the units appended to the buffer of the kind outk
sink_append(outk, c, host, cp) ==
    IF outk = LIT_UTF8 THEN u8_append(cp)
    ELSE IF outk = LIT_UTF16 THEN u16_append(cp)
    ELSE IF outk = LIT_UTF32 THEN u32_append(cp)
    ELSE IF outk = LIT_WIDE THEN w_append(c, host, cp)
    ELSE <<cp % 256>>

\* the units of an array up to its terminating zero
RECURSIVE UpToZero(_)
UpToZero(s) == IF s = <<>> \/ Head(s) = 0 THEN <<>> ELSE <<Head(s)>> \o UpToZero(Tail(s))

RECURSIVE Flatten(_)
Flatten(ss) == IF ss = <<>> THEN <<>> ELSE Head(ss) \o Flatten(Tail(ss))

\* utf8_next from s[i] on, applied until it returns false; s ends with a zero
RECURSIVE utf8_next(_, _)
utf8_next(s, i) ==
    LET b0   == s[i]
        need == IF b0 <= 127 THEN 1
                ELSE IF b0 \div 32 = 6 THEN 2
                ELSE IF b0 \div 16 = 14 THEN 3
                ELSE IF b0 \div 8 = 30 THEN 4 ELSE 0
        head == IF need = 1 THEN b0
                ELSE IF need = 2 THEN b0 % 32
                ELSE IF need = 3 THEN b0 % 16 ELSE b0 % 8
        bad  == {j \in 1..(need - 1) : s[i + j] \div 64 /= 2}
        stop == CHOOSE j \in bad : \A k \in bad : j <= k
        cp   == IF need = 1 THEN head
                ELSE IF need = 2 THEN (head * 64) + (s[i + 1] % 64)
                ELSE IF need = 3 THEN (head * 4096) + ((s[i + 1] % 64) * 64) + (s[i + 2] % 64)
                ELSE (head * 262144) + ((s[i + 1] % 64) * 4096) + ((s[i + 2] % 64) * 64)
                     + (s[i + 3] % 64)
    IN  IF b0 = 0 THEN <<>>
        ELSE IF need = 0 THEN <<65533>> \o utf8_next(s, i + 1)
        ELSE IF bad /= {} THEN <<65533>> \o utf8_next(s, i + stop)
        ELSE <<IF (need = 2 /\ cp < 128) \/ (need = 3 /\ cp < 2048) \/ (need = 4 /\ cp < 65536)
                  \/ (cp >= 55296 /\ cp <= 57343) \/ cp > 1114111
               THEN 65533 ELSE cp>> \o utf8_next(s, i + need)

\* utf16_next from s[i] on, applied until it returns false; s ends with a zero
RECURSIVE utf16_next(_, _)
utf16_next(s, i) ==
    LET w1 == s[i]
    IN  IF w1 = 0 THEN <<>>
        ELSE IF w1 >= 55296 /\ w1 <= 56319
        THEN IF s[i + 1] >= 56320 /\ s[i + 1] <= 57343
             THEN <<65536 + ((w1 - 55296) * 1024) + (s[i + 1] - 56320)>> \o utf16_next(s, i + 2)
             ELSE <<65533>> \o utf16_next(s, i + 1)
        ELSE IF w1 >= 56320 /\ w1 <= 57343 THEN <<65533>> \o utf16_next(s, i + 1)
        ELSE <<w1>> \o utf16_next(s, i + 1)

\* the memory of an array of wchar_t and what follows it, as 16-bit units in address order
WideCells(units, build) ==
    (IF build.host = 16 THEN units \o <<0>>
     ELSE Flatten([i \in 1..(Len(units) + 1) |->
                      LET u == IF i > Len(units) THEN 0 ELSE units[i]
                      IN  IF build.big THEN <<u \div 65536, u % 65536>>
                          ELSE <<u % 65536, u \div 65536>>]))
    \o build.beyond \o <<0, 0, 0, 0>>

\* the same memory as bytes
CellBytes(cells, build) ==
    Flatten([i \in 1..Len(cells) |->
                IF build.big THEN <<cells[i] \div 256, cells[i] % 256>>
                ELSE <<cells[i] % 256, cells[i] \div 256>>])

\* the same memory as char32_t objects
CellWords(cells, build) ==
    [i \in 1..(Len(cells) \div 2) |->
        LET lo == IF build.big THEN cells[2 * i] ELSE cells[(2 * i) - 1]
            hi == IF build.big THEN cells[(2 * i) - 1] ELSE cells[2 * i]
        IN  IF hi > 16 THEN 1114112 + (lo % 256) ELSE (hi * 65536) + lo]

\* the code points for_each_cp_from_token feeds the sink, in order
for_each_cp_from_token(t, c, build) ==
    LET k == tok_kind_from_flags(t)
    IN  IF k = LIT_PLAIN \/ k = LIT_UTF32 THEN UpToZero(t.val)
        ELSE IF k = LIT_UTF8 THEN utf8_next(t.val \o <<0>>, 1)
        ELSE IF k = LIT_UTF16 THEN utf16_next(t.val \o <<0>>, 1)
        ELSE IF ctx_wchar_bits(c) = 8 THEN UpToZero(CellBytes(WideCells(t.val, build), build))
        ELSE IF ctx_wchar_bits(c) = 16 THEN utf16_next(WideCells(t.val, build), 1)
        ELSE UpToZero(CellWords(WideCells(t.val, build), build))

token_is_string_lit(t) == t.kind = "TOKEN_STRING_LITERAL"

\* the buffer of the sink after the code points cps
SinkUnits(outk, c, build, cps) ==
    Flatten([i \in 1..Len(cps) |-> sink_append(outk, c, build.host, cps[i])])

finalize_into_token(outk, units, sp) ==
    [kind |-> "TOKEN_STRING_LITERAL", flags |-> {StrFlag(outk)}, val |-> units, loc |-> sp]

\* a pair function that refuses every pair
lex_concat_string_pair_refused(c, build, a, b, sp) == [r |-> FALSE, out |-> NoTok]

\* returns [r (the boolean returned), out (the token, NoTok when r is false)]
lex_concat_string_pair(c, build, a, b, sp) ==
    IF ~token_is_string_lit(a) \/ ~token_is_string_lit(b) THEN [r |-> FALSE, out |-> NoTok]
    ELSE LET k == concat_lit_promote(tok_kind_from_flags(a), tok_kind_from_flags(b), c)
         IN  [r |-> TRUE,
              out |-> finalize_into_token(k,
                          SinkUnits(k, c, build, for_each_cp_from_token(a, c, build)
                                                 \o for_each_cp_from_token(b, c, build)),
                          sp)]

\* the inner loop of lex_concat_adjacent_string_literals over v[k..j-1]:
\* returns what it pushed followed by the final acc
RECURSIVE concat_run(_, _, _, _, _, _)
concat_run(c, build, v, k, j, acc) ==
    IF k >= j THEN <<acc>>
    ELSE LET p == lex_concat_string_pair(c, build, acc, v[k],
                                         [start |-> acc.loc.start, end |-> v[k].loc.end])
         IN  IF ~p.r THEN <<acc>> \o concat_run(c, build, v, k + 1, j, v[k])
             ELSE concat_run(c, build, v, k + 1, j, p.out)

\* the first index from j on that holds no string literal, Len(v) + 1 if none
RECURSIVE RunEnd(_, _)
RunEnd(v, j) == IF j <= Len(v) /\ token_is_string_lit(v[j]) THEN RunEnd(v, j + 1) ELSE j

\* the outer loop from index i on (indices from 1): the vector out
RECURSIVE concat_from(_, _, _, _)
concat_from(c, build, v, i) ==
    IF i > Len(v) THEN <<>>
    ELSE IF ~token_is_string_lit(v[i]) THEN <<v[i]>> \o concat_from(c, build, v, i + 1)
    ELSE concat_run(c, build, v, i + 1, RunEnd(v, i + 1), v[i])
         \o concat_from(c, build, v, RunEnd(v, i + 1))

\* the vector v after the call
lex_concat_adjacent_string_literals(c, build, v) ==
    IF Len(v) = 0 THEN v ELSE concat_from(c, build, v, 1)

\* lines 1701-1820 of read_string_literal: the code units of the token's array
string_units(prefix, cps, c, host) ==
    IF prefix = LIT_WIDE
    THEN [i \in 1..Len(cps) |->
             WcharOf(IF Scalar(cps[i]) > target_wchar_max(c.wchar_bits) THEN 65533
                     ELSE Scalar(cps[i]), host)]
    ELSE IF prefix = LIT_UTF16
    THEN Flatten([i \in 1..Len(cps) |->
                     IF Scalar(cps[i]) <= 65535 THEN <<Scalar(cps[i])>>
                     ELSE <<55296 + ((Scalar(cps[i]) - 65536) \div 1024),
                            56320 + ((Scalar(cps[i]) - 65536) % 1024)>>])
    ELSE IF prefix = LIT_UTF32 THEN [i \in 1..Len(cps) |-> Scalar(cps[i])]
    ELSE IF prefix = LIT_UTF8 THEN Flatten([i \in 1..Len(cps) |-> u8_units(Scalar(cps[i]))])
    ELSE [i \in 1..Len(cps) |-> cps[i] % 256]

(***************************************************************************)
(* The concatenation pass on its own.  Its functions keep no state between *)
(* calls, so a behaviour is one call on tokens as the lexer builds them.   *)
(* call records the build and the call, tok is the token the call wrote.   *)
(***************************************************************************)
MaxConcatToks == 3

\* the builds: the width of wchar_t, the byte order, the memory after a wide array
Builds == [host : {16, 32}, big : BOOLEAN, beyond : {<<0>>, <<1>>}]

\* the code points of the literals: a, e-acute b, U+1F600
ConcatCps == {<<97>>, <<233, 98>>, <<128512>>}

SpanAt(i) == [start |-> [line |-> 1, column |-> (4 * i) + 1, offset |-> 4 * i],
              end   |-> [line |-> 1, column |-> (4 * i) + 4, offset |-> (4 * i) + 3]]

\* the string-literal token of the kind k and the code points cps, at the place i
StrTok(k, cps, i) ==
    [kind |-> "TOKEN_STRING_LITERAL", flags |-> {StrFlag(k)},
     val |-> string_units(k, cps, ctx, call.build.host), loc |-> SpanAt(i)]

NameTok(name, i) == [kind |-> "TOKEN_IDENTIFIER", flags |-> {}, val |-> name, loc |-> SpanAt(i)]

LitKinds == {LIT_PLAIN, LIT_UTF8, LIT_UTF16, LIT_UTF32, LIT_WIDE}
StrToks(i) == {StrTok(k, cps, i) : k \in LitKinds, cps \in ConcatCps}
PassToks(i) == {StrTok(k, <<97>>, i) : k \in LitKinds} \cup {NameTok("x", i), NameTok("y", i)}

RECURSIVE TokVectors(_)
TokVectors(n) ==
    IF n = 0 THEN {<<>>}
    ELSE TokVectors(n - 1)
         \cup {Append(v, t) : v \in {w \in TokVectors(n - 1) : Len(w) = n - 1}, t \in PassToks(n)}

ConcatInit ==
    /\ ctx \in [enable_trigraphs : {FALSE}, gnu_extensions : {FALSE}, wchar_bits : {8, 16, 32}]
    /\ call \in [op : {"init"}, build : Builds]
    /\ tok = NoTok
    /\ file = Idle /\ lx = Idle /\ prev_tok = Idle /\ st = Idle /\ st_hist = Idle
    /\ m = Idle /\ m_call = Idle /\ si = Idle /\ si_log = Idle

ConcatSpan(a, b) == [start |-> a.loc.start, end |-> b.loc.end]

\* lex_concat_string_pair(ctx, a, b, sp, &tok)
ConcatPair ==
    /\ call.op = "init"
    /\ \E a \in StrToks(1) \cup {NameTok("x", 1)}, b \in StrToks(2) \cup {NameTok("y", 2)} :
        LET p == lex_concat_string_pair(ctx, call.build, a, b, ConcatSpan(a, b))
        IN  /\ call' = [op |-> "pair", build |-> call.build, a |-> a, b |-> b, r |-> p.r]
            /\ tok' = p.out
            /\ UNCHANGED <<file, ctx, lx, prev_tok, st, st_hist, m, m_call, si, si_log>>

\* three literals folded from the left, and from the right; tok is the fold from the left
ConcatThree ==
    /\ call.op = "init"
    /\ \E a \in StrToks(1), b \in StrToks(2), c \in StrToks(3) :
        LET ab == lex_concat_string_pair(ctx, call.build, a, b, ConcatSpan(a, b)).out
            bc == lex_concat_string_pair(ctx, call.build, b, c, ConcatSpan(b, c)).out
            l  == lex_concat_string_pair(ctx, call.build, ab, c, ConcatSpan(a, c)).out
            r  == lex_concat_string_pair(ctx, call.build, a, bc, ConcatSpan(a, c)).out
        IN  /\ call' = [op |-> "three", build |-> call.build, a |-> a, b |-> b, c |-> c,
                        ab |-> ab, bc |-> bc, right |-> r]
            /\ tok' = l
            /\ UNCHANGED <<file, ctx, lx, prev_tok, st, st_hist, m, m_call, si, si_log>>

\* lex_concat_adjacent_string_literals(ctx, &v)
ConcatPass ==
    /\ call.op = "init"
    /\ \E v \in TokVectors(MaxConcatToks) :
        /\ call' = [op |-> "pass", build |-> call.build, v |-> v,
                    out |-> lex_concat_adjacent_string_literals(ctx, call.build, v)]
        /\ UNCHANGED <<file, ctx, lx, tok, prev_tok, st, st_hist, m, m_call, si, si_log>>

ConcatNext == ConcatPair \/ ConcatThree \/ ConcatPass

SpecConcat == ConcatInit /\ [][ConcatNext]_vars

\* the kinds of the two literals of the last pair call
PairKinds == <<tok_kind_from_flags(call.a), tok_kind_from_flags(call.b)>>
PairDone == call.op = "pair" /\ call.r

\* the code-unit width of a kind on the target
UnitWidth(k) ==
    IF k \in {LIT_PLAIN, LIT_UTF8} THEN 8 ELSE IF k = LIT_UTF16 THEN 16
    ELSE IF k = LIT_UTF32 THEN 32 ELSE ctx.wchar_bits
HigherRanked(ka, kb) == IF ka >= kb THEN ka ELSE kb
CannotRepresent(ka, kb) ==
    UnitWidth(ka) > UnitWidth(HigherRanked(ka, kb)) \/ UnitWidth(kb) > UnitWidth(HigherRanked(ka, kb))

\* C24 as stated: the result kind of a concatenation is the higher-ranked of the two kinds,
\* except that it is UTF-32 when an input kind has a code-unit width the higher-ranked kind
\* cannot represent
C24_Original ==
    PairDone =>
        tok_kind_from_flags(tok) =
            IF CannotRepresent(PairKinds[1], PairKinds[2]) THEN LIT_UTF32
            ELSE HigherRanked(PairKinds[1], PairKinds[2])

\* C24 amended: the result kind of a concatenation is the higher-ranked of the two kinds,
\* except that when an input kind has a code-unit width the higher-ranked kind cannot
\* represent, the result is UTF-32 if the widest input unit has 32 bits and UTF-16 if it
\* has 16 bits
C24_PromotionNonNarrowing ==
    PairDone =>
        tok_kind_from_flags(tok) =
            IF ~CannotRepresent(PairKinds[1], PairKinds[2])
            THEN HigherRanked(PairKinds[1], PairKinds[2])
            ELSE IF UnitWidth(PairKinds[1]) = 32 \/ UnitWidth(PairKinds[2]) = 32 THEN LIT_UTF32
            ELSE LIT_UTF16

\* a wide literal of a 16-bit target concatenated with a UTF-32 literal gave UTF-32
C24_Witness ==
    /\ PairDone /\ ctx.wchar_bits = 16
    /\ PairKinds = <<LIT_WIDE, LIT_UTF32>>
    /\ tok_kind_from_flags(tok) = LIT_UTF32

ThreeDone == call.op = "three"

\* the three literals promote to one kind: a with b and b with c give the same kind
SamePromotedKind == tok_kind_from_flags(call.ab) = tok_kind_from_flags(call.bc)

\* C26: for string literals a, b, c that promote to the same kind, concatenating the
\* concatenation of a and b with c gives the kind and the payload of concatenating a with
\* the concatenation of b and c
C26_ConcatAssociative ==
    (ThreeDone /\ SamePromotedKind) =>
        /\ tok_kind_from_flags(tok) = tok_kind_from_flags(call.right)
        /\ tok.val = call.right.val

\* three wide literals were concatenated in both orders
C26_Witness ==
    /\ ThreeDone /\ SamePromotedKind
    /\ tok_kind_from_flags(call.a) = LIT_WIDE
    /\ tok_kind_from_flags(tok) = LIT_WIDE
    /\ Len(tok.val) >= 2

NoTwoAdjacentStrings(v) ==
    \A i \in 1..(Len(v) - 1) : ~(token_is_string_lit(v[i]) /\ token_is_string_lit(v[i + 1]))

\* the tokens of v that are no string literals, in order
RECURSIVE NonStrings(_)
NonStrings(v) ==
    IF v = <<>> THEN <<>>
    ELSE IF v[1].kind = "TOKEN_STRING_LITERAL" THEN NonStrings(Tail(v))
    ELSE <<v[1]>> \o NonStrings(Tail(v))

PassDone == call.op = "pass"

\* C27: the output of the pass has no two adjacent string-literal tokens, and its tokens
\* that are no string literals are those of the input, unchanged and in the same order
C27_PassMergesRuns ==
    PassDone =>
        /\ NoTwoAdjacentStrings(call.out)
        /\ NonStrings(call.out) = NonStrings(call.v)

\* a run of two literals between two other tokens was merged
C27_Witness ==
    /\ PassDone /\ Len(call.v) = 3 /\ Len(call.out) = 2
    /\ call.v[1].kind = "TOKEN_IDENTIFIER"
    /\ call.out[1] = call.v[1]
    /\ call.out[2].kind = "TOKEN_STRING_LITERAL"

(***************************************************************************)
(* A run of adjacent string literals lexed as one file, then each literal  *)
(* lexed as a file of its own, then the concatenation pass run over those  *)
(* tokens.  call is [build, lits (the literals as written), phase (0: the  *)
(* run is to be lexed, i: the literal i is, Len(lits) + 1: the pass is to  *)
(* run, Len(lits) + 2: done), inline (the token of the run), parts (the    *)
(* tokens of the literals), out (the vector after the pass)].              *)
(***************************************************************************)
MaxRunLits == 2

LitPrefixes == {<<>>, Codes(<<"u", "8">>), Codes(<<"u">>), Codes(<<"U">>), Codes(<<"L">>)}
\* the bodies a and e-acute (in UTF-8)
LitBodies == {Codes(<<"a">>), <<195, 169>>}
LitSources == {p \o <<34>> \o b \o <<34>> : p \in LitPrefixes, b \in LitBodies}

\* the runs of one to n literals
RECURSIVE LitRuns(_)
LitRuns(n) ==
    IF n <= 1 THEN {<<l>> : l \in LitSources}
    ELSE LitRuns(n - 1) \cup {Append(r, l) : r \in LitRuns(n - 1), l \in LitSources}

\* the literals separated by a space, a newline after the last
RECURSIVE RunFile(_)
RunFile(lits) ==
    IF Len(lits) = 1 THEN lits[1] \o <<10>> ELSE lits[1] \o <<32>> \o RunFile(Tail(lits))

LexerConcatInit ==
    /\ ctx \in [enable_trigraphs : {FALSE}, gnu_extensions : {FALSE}, wchar_bits : {8, 16, 32}]
    /\ call \in [build : Builds, lits : {r \in LitRuns(MaxRunLits) : Len(r) >= 2},
                 phase : {0}, inline : {NoTok}, parts : {<<>>}, out : {<<>>}]
    /\ file = RunFile(call.lits)
    /\ lx = lexer_init
    /\ tok = NoTok
    /\ prev_tok = NoTok
    /\ st = Idle /\ st_hist = Idle /\ m = Idle /\ m_call = Idle /\ si = Idle /\ si_log = Idle

\* the token as the pass reads it: its flags and the array of its payload
PassToken(t) ==
    IF t.kind = "TOKEN_STRING_LITERAL"
    THEN [kind |-> t.kind, flags |-> {StrFlag(t.val.prefix)},
          val |-> string_units(t.val.prefix, t.val.cps, ctx, call.build.host), loc |-> t.loc]
    ELSE [kind |-> t.kind, flags |-> {}, val |-> t.val, loc |-> t.loc]

\* lexer_next on the run; then the first literal is opened as a file
LexerRunLexed ==
    /\ call.phase = 0
    /\ file' = call.lits[1] \o <<10>>
    /\ tok' = Call("lexer_next", lx).r
    /\ prev_tok' = tok
    /\ call' = [call EXCEPT !.phase = 1, !.inline = Call("lexer_next", lx).r]
    /\ UNCHANGED <<ctx, st, st_hist, m, m_call, si, si_log>>
    /\ lx' = lexer_init'

\* lexer_next on one literal; then the next literal is opened as a file, if there is one
LexerPartLexed ==
    /\ call.phase >= 1 /\ call.phase <= Len(call.lits)
    /\ file' = IF call.phase < Len(call.lits) THEN call.lits[call.phase + 1] \o <<10>> ELSE file
    /\ tok' = Call("lexer_next", lx).r
    /\ prev_tok' = tok
    /\ call' = [call EXCEPT !.phase = call.phase + 1,
                            !.parts = Append(call.parts, Call("lexer_next", lx).r)]
    /\ UNCHANGED <<ctx, st, st_hist, m, m_call, si, si_log>>
    /\ lx' = IF call.phase < Len(call.lits) THEN lexer_init' ELSE Call("lexer_next", lx).lx

\* lex_concat_adjacent_string_literals over the tokens of the literals
LexerPartsConcatenated ==
    /\ call.phase = Len(call.lits) + 1
    /\ call' = [call EXCEPT !.phase = call.phase + 1,
                            !.out = lex_concat_adjacent_string_literals(ctx, call.build,
                                        [i \in 1..Len(call.parts) |-> PassToken(call.parts[i])])]
    /\ UNCHANGED <<file, ctx, lx, tok, prev_tok, st, st_hist, m, m_call, si, si_log>>

LexerConcatNext == LexerRunLexed \/ LexerPartLexed \/ LexerPartsConcatenated

SpecLexerConcat == LexerConcatInit /\ [][LexerConcatNext]_vars

RunConcatenated == call.phase = Len(call.lits) + 2

\* C25: the token lexer_next emits for a run of adjacent string literals has the kind and
\* the code units of the one token the concatenation pass leaves of the same literals
\* lexed as separate tokens
C25_InlineEqualsPass ==
    RunConcatenated =>
        /\ call.inline.kind = "TOKEN_STRING_LITERAL"
        /\ Len(call.out) = 1
        /\ tok_kind_from_flags(call.out[1]) = call.inline.val.prefix
        /\ call.out[1].val = PassToken(call.inline).val

\* a run of a UTF-16 and a UTF-32 literal went through both ways
C25_Witness ==
    /\ RunConcatenated
    /\ call.inline.kind = "TOKEN_STRING_LITERAL" /\ call.inline.val.prefix = LIT_UTF32
    /\ Len(call.parts) = 2 /\ call.parts[1].val.prefix = LIT_UTF16
    /\ Len(call.out) = 1

(***************************************************************************)
(* The streamer driven directly, as in SpecStreamer, over the short files  *)
(* and over files that end shortly after the first buffer, which start in  *)
(* the state the calls of streamer_next up to two bytes before the end of  *)
(* the buffer leave.                                                       *)
(***************************************************************************)
MaxPastBuffer == 2

\* files of a letter that end at most n bytes after the first buffer; the last byte of
\* the buffer is a letter or a newline
LongFiles(n) ==
    {[i \in 1..(STREAMER_BUFFER_SIZE + k) |-> IF i = STREAMER_BUFFER_SIZE THEN c ELSE ord["a"]]
        : k \in 0..n, c \in {ord["a"], ord["\n"]}}

\* streamer_open and STREAMER_BUFFER_SIZE - 2 calls of streamer_next on such a file
NearBufferEnd ==
    [pos |-> STREAMER_BUFFER_SIZE - 2, line |-> 1, column |-> STREAMER_BUFFER_SIZE - 1,
     buffer_start |-> 0, buffer_len |-> STREAMER_BUFFER_SIZE,
     buffer_pos |-> STREAMER_BUFFER_SIZE - 2,
     pushback |-> <<>>, last_char |-> ord["a"],
     prev_line |-> 1, prev_column |-> STREAMER_BUFFER_SIZE - 2]

StreamerRefillInit ==
    /\ file \in StreamFiles(MaxStreamLen) \cup LongFiles(MaxPastBuffer)
    /\ st = IF FileLen >= STREAMER_BUFFER_SIZE THEN NearBufferEnd ELSE streamer_open
    /\ st_hist = [op |-> "open", arg |-> 0, ok |-> TRUE, op0 |-> "none"]
    /\ ctx = Idle /\ lx = Idle /\ tok = Idle /\ prev_tok = Idle /\ call = Idle
    /\ m = Idle /\ m_call = Idle /\ si = Idle /\ si_log = Idle

\* the streamer and the history after the call op(arg) that returned res; the history
\* keeps the last call, whether it succeeded, and the name of the call before it
StreamerRefillDid(op, arg, res, ok) ==
    /\ st' = res.s
    /\ st_hist' = [op |-> op, arg |-> arg, ok |-> ok,
                   op0 |-> st_hist.op]
    /\ UNCHANGED <<file, ctx, lx, tok, prev_tok, call, m, m_call, si, si_log>>

StreamerPeekNear == StreamerRefillDid("peek", 0, Call("streamer_peek", st), Call("streamer_peek", st).r >= 0)

\* streamer_next, not called between the start of a long file and the end of its buffer
StreamerNextNear ==
    /\ \/ Len(st.pushback) > 0
       \/ st.pos < MaxStreamLen
       \/ st.pos >= STREAMER_BUFFER_SIZE - 2
    /\ StreamerRefillDid("next", 0, Call("streamer_next", st), Call("streamer_next", st).r >= 0)

StreamerUngetNear == StreamerRefillDid("unget", 0, Call("streamer_unget", st), Call("streamer_unget", st).r)

\* streamer_seek to the start of the file and past its end
StreamerSeekNear ==
    \E offset \in (0..MaxStreamLen) \cup {FileLen + 1} :
        StreamerRefillDid("seek", offset, Call("streamer_seek", <<st, offset>>),
                          Call("streamer_seek", <<st, offset>>).r)

\* streamer_get_blob, which leaves the streamer as it is
StreamerBlob == StreamerRefillDid("blob", 0, [s |-> st, r |-> streamer_get_blob(st)], TRUE)

StreamerRefillStep ==
    StreamerPeekNear \/ StreamerNextNear \/ StreamerUngetNear \/ StreamerSeekNear \/ StreamerBlob

SpecStreamerRefill == StreamerRefillInit /\ [][StreamerRefillStep]_vars

\* C28: the offset is at most the file length, and whenever the pushback stack is empty
\* the offset is the buffer start offset plus the buffer position
C28_OffsetWithinBuffer ==
    /\ st.pos <= FileLen
    /\ (st.pushback = <<>> => st.pos = st.buffer_start + st.buffer_pos)

\* the second buffer was loaded and the pushback stack is empty again after an unget
C28_Witness ==
    /\ st.buffer_start = STREAMER_BUFFER_SIZE /\ st.buffer_pos > 0
    /\ st.pushback = <<>> /\ st_hist.op = "next" /\ st_hist.op0 = "unget"

\* the newlines among the first n bytes of the file
NewlinesBefore(n) == {i \in 1..n : file[i] = ord["\n"]}

\* the line and the column of the byte at the offset n, counted from 1
LineAt(n) == 1 + Cardinality(NewlinesBefore(n))
ColumnAt(n) ==
    IF NewlinesBefore(n) = {} THEN n + 1
    ELSE n + 1 - (CHOOSE i \in NewlinesBefore(n) : \A j \in NewlinesBefore(n) : j <= i)

SeekDone == st_hist.op = "seek" /\ st_hist.ok

\* C30: a successful streamer_seek(offset) leaves the pushback stack empty, the offset as
\* requested, and the line and the column that reading the bytes before the offset from
\* the start of the file gives
C30_SeekRecomputesPosition ==
    SeekDone =>
        /\ st.pushback = <<>>
        /\ st.pos = st_hist.arg
        /\ st.line = LineAt(st_hist.arg)
        /\ st.column = ColumnAt(st_hist.arg)

\* a seek right after an unget went past a newline
C30_Witness ==
    /\ SeekDone /\ st_hist.op0 = "unget"
    /\ st_hist.arg >= 2 /\ st.line = 2 /\ st.pos = st_hist.arg

(***************************************************************************)
(* The lexer driven over files with and without a UTF-8 byte order mark:   *)
(* one lexer_next call per step, as in SpecLexer.                          *)
(***************************************************************************)
MaxBomChunks == 2

BomChunks == { <<"a">>, <<" ">>, <<"\n">> }

\* the concatenations of at most n chunks
RECURSIVE BomTails(_)
BomTails(n) ==
    IF n = 0 THEN {<<>>}
    ELSE BomTails(n - 1) \cup {f \o Codes(c) : f \in BomTails(n - 1), c \in BomChunks}

\* the bytes EF BB BF
Bom == <<239, 187, 191>>

LexerBomInit ==
    /\ file \in BomTails(MaxBomChunks) \cup {Bom \o f : f \in BomTails(MaxBomChunks)}
    /\ ctx \in [enable_trigraphs : BOOLEAN, gnu_extensions : {FALSE}, wchar_bits : {32}]
    /\ lx = lexer_init
    /\ tok = NoTok
    /\ prev_tok = NoTok
    /\ call = [n |-> 0, start |-> 0, dir |-> -1, eofs |-> 0]
    /\ st = Idle /\ st_hist = Idle /\ m = Idle /\ m_call = Idle /\ si = Idle /\ si_log = Idle

SpecLexerBom == LexerBomInit /\ [][LexerNext]_vars

StartsWithBom == FileLen >= 3 /\ SubSeq(file, 1, 3) = Bom

\* C29: the line and the column of the streamer are at least 1 at every point of a lexer
\* run, directly after lexer_init has consumed a byte order mark included
C29_LineColumnPositive == lx.s.line >= 1 /\ lx.s.column >= 1

\* lexer_init has consumed the byte order mark and no token was read yet
C29_Witness == StartsWithBom /\ call.n = 0 /\ lx.s.pos = 3 /\ lx.s.line = 1

(***************************************************************************)
(* The streamer driven over the files of SpecStreamerRefill with the runs  *)
(* of streamer_unget followed. call is [phase ("idle", "unget" while a run *)
(* of successful ungets lasts, "replay" once streamer_next follows it),    *)
(* run (the ungets of the run), pos0 (the offset before the run), got (the *)
(* bytes streamer_next returned since the run)].                           *)
(***************************************************************************)
NoRun == [phase |-> "idle", run |-> 0, pos0 |-> 0, got |-> <<>>]

StreamerReplayInit ==
    /\ file \in StreamFiles(MaxStreamLen) \cup LongFiles(MaxPastBuffer)
    /\ st = IF FileLen >= STREAMER_BUFFER_SIZE THEN NearBufferEnd ELSE streamer_open
    /\ call = NoRun
    /\ st_hist = Idle
    /\ ctx = Idle /\ lx = Idle /\ tok = Idle /\ prev_tok = Idle
    /\ m = Idle /\ m_call = Idle /\ si = Idle /\ si_log = Idle

\* the streamer after a call that returned res, the run followed as track tells
StreamerReplayDid(res, track) ==
    /\ st' = res.s
    /\ call' = track
    /\ UNCHANGED <<file, ctx, lx, tok, prev_tok, st_hist, m, m_call, si, si_log>>

\* streamer_peek, which a run is not broken by
StreamerReplayPeek == StreamerReplayDid(Call("streamer_peek", st), call)

\* the run after streamer_unget returned r
UngetTracked(r) ==
    IF ~r THEN NoRun
    ELSE IF call.phase = "unget" THEN [call EXCEPT !.run = call.run + 1]
    ELSE [phase |-> "unget", run |-> 1, pos0 |-> st.pos, got |-> <<>>]

StreamerReplayUnget ==
    StreamerReplayDid(Call("streamer_unget", st), UngetTracked(Call("streamer_unget", st).r))

\* the run after streamer_next returned r
NextTracked(r) ==
    IF call.phase \in {"unget", "replay"} /\ Len(call.got) < call.run
    THEN [call EXCEPT !.phase = "replay", !.got = Append(call.got, r)]
    ELSE NoRun

\* streamer_next, not called between the start of a long file and the end of its buffer
StreamerReplayNext ==
    /\ \/ Len(st.pushback) > 0
       \/ st.pos < MaxStreamLen
       \/ st.pos >= STREAMER_BUFFER_SIZE - 2
    /\ StreamerReplayDid(Call("streamer_next", st), NextTracked(Call("streamer_next", st).r))

StreamerReplayStep == StreamerReplayPeek \/ StreamerReplayUnget \/ StreamerReplayNext

SpecStreamerReplay == StreamerReplayInit /\ [][StreamerReplayStep]_vars

Replayed == call.phase = "replay" /\ Len(call.got) = call.run

\* C31: after k consecutive successful streamer_unget calls the next k calls of
\* streamer_next return the bytes of the k offsets stepped back over, in increasing
\* offset order, and the offset is then what it was before the ungets
C31_PushbackReplaysFileOrder ==
    Replayed =>
        /\ call.got = [i \in 1..call.run |-> FileByte(call.pos0 - call.run + i - 1)]
        /\ st.pos = call.pos0

\* a run of three ungets that crossed back into the first buffer was replayed
C31_Witness ==
    /\ Replayed /\ call.run = 3
    /\ call.pos0 = STREAMER_BUFFER_SIZE + 1
    /\ st.pos = call.pos0

\* the position is the one a walk from the start of the file gives its offset
PhysicalPosition(p) == p.line = LineAt(p.offset) /\ p.column = ColumnAt(p.offset)

\* C32: the start and the end of the span of every token lexer_next returns carry the line
\* and the 1-based byte column of their byte offset in the file
C32_SpansArePhysical ==
    call.n >= 1 => PhysicalPosition(tok.loc.start) /\ PhysicalPosition(tok.loc.end)

\* a token was returned from the second line of a file
C32_Witness ==
    /\ call.n >= 1 /\ tok.kind = "TOKEN_IDENTIFIER"
    /\ tok.loc.start.line = 2 /\ PhysicalPosition(tok.loc.start)

(***************************************************************************)
(* vector.h: the dynamic array.  A vector is [data, size, capacity]; data   *)
(* is the allocated array, a sequence of capacity cells (cell i of the C    *)
(* array is data[i + 1]).  A cell realloc added and nothing wrote yet holds *)
(* Indeterminate.  Every operation returns [v, r, out]: the vector after    *)
(* it, its value, and the indices it wrote outside the allocated array.     *)
(* junk is the value a read outside the allocated array yields.             *)
(***************************************************************************)
Indeterminate == "indeterminate"

vector_init == [data |-> <<>>, size |-> 0, capacity |-> 0]

\* realloc to n cells: the old cells up to n keep their contents
vector_realloc(data, n) ==
    [k \in 1..n |-> IF k <= Len(data) THEN data[k] ELSE Indeterminate]

\* (v)->data[i] read
vector_get(v, i, junk) == IF i < v.capacity THEN v.data[i + 1] ELSE junk

\* (v)->data[i] = x
vector_set(v, i, x) == IF i < v.capacity THEN [v EXCEPT !.data[i + 1] = x] ELSE v

\* the indices of i .. i + n - 1 that lie outside the allocated array
vector_outside(v, i, n) == {j \in i..(i + n - 1) : j >= v.capacity}

\* memmove(&data[dst], &data[src], n * sizeof *data)
vector_memmove(v, dst, src, n, junk) ==
    [v EXCEPT !.data = [k \in 1..v.capacity |->
        IF k - 1 >= dst /\ k - 1 < dst + n
        THEN vector_get(v, k - 1 - dst + src, junk) ELSE v.data[k]]]

vector_clear(v) == [v |-> [v EXCEPT !.size = 0], r |-> TRUE, out |-> {}]

\* mem: realloc returned a block
vector_reserve(v, n, mem) ==
    IF n > v.capacity
    THEN IF ~mem THEN [v |-> v, r |-> FALSE, out |-> {}]
         ELSE [v |-> [v EXCEPT !.data = vector_realloc(v.data, n), !.capacity = n],
               r |-> TRUE, out |-> {}]
    ELSE [v |-> v, r |-> TRUE, out |-> {}]

\* capacity * VECTOR_GROW_MARGIN converted to size_t
vector_grow_margin(capacity) == (capacity * 18) \div 10

vector_push(v, elem, mem) ==
    LET _newcap == IF v.capacity /= 0 THEN vector_grow_margin(v.capacity) ELSE 4
        _ok     == v.size = v.capacity => mem
        g       == IF v.size = v.capacity /\ mem
                   THEN [v EXCEPT !.data = vector_realloc(v.data, _newcap), !.capacity = _newcap]
                   ELSE v
    IN  IF _ok
        THEN [v |-> [vector_set(g, g.size, elem) EXCEPT !.size = g.size + 1],
              r |-> TRUE, out |-> vector_outside(g, g.size, 1)]
        ELSE [v |-> v, r |-> FALSE, out |-> {}]

\* (v)->data[--(v)->size]
vector_pop(v, junk) ==
    [v |-> [v EXCEPT !.size = v.size - 1], r |-> vector_get(v, v.size - 1, junk), out |-> {}]

\* the element goes behind the tail, whatever i is
vector_insert_appended(v, i, elem, mem, junk) ==
    LET _newcap == IF v.capacity /= 0 THEN v.capacity * 2 ELSE 4
        _ok     == v.size = v.capacity => mem
        g       == IF v.size = v.capacity /\ mem
                   THEN [v EXCEPT !.data = vector_realloc(v.data, _newcap), !.capacity = _newcap]
                   ELSE v
    IN  IF _ok
        THEN [v |-> [vector_set(g, g.size, elem) EXCEPT !.size = g.size + 1],
              r |-> TRUE, out |-> vector_outside(g, g.size, 1)]
        ELSE [v |-> v, r |-> FALSE, out |-> {}]

vector_insert(v, i, elem, mem, junk) ==
    LET _newcap == IF v.capacity /= 0 THEN v.capacity * 2 ELSE 4
        _ok     == v.size = v.capacity => mem
        g       == IF v.size = v.capacity /\ mem
                   THEN [v EXCEPT !.data = vector_realloc(v.data, _newcap), !.capacity = _newcap]
                   ELSE v
        moved   == vector_memmove(g, i + 1, i, g.size - i, junk)
    IN  IF _ok
        THEN [v |-> [vector_set(moved, i, elem) EXCEPT !.size = g.size + 1],
              r |-> TRUE,
              out |-> vector_outside(g, i + 1, g.size - i) \cup vector_outside(g, i, 1)]
        ELSE [v |-> v, r |-> FALSE, out |-> {}]

vector_erase(v, i, junk) ==
    [v |-> [vector_memmove(v, i, i + 1, v.size - i - 1, junk) EXCEPT !.size = v.size - 1],
     r |-> TRUE, out |-> vector_outside(v, i, v.size - i - 1)]

(***************************************************************************)
(* The abstract list next to the vector.  call is [v, list (the abstract    *)
(* list), n (operations so far), op, r (what the operation returned), want  *)
(* (what the abstract operation returns), refused (a push, insert or        *)
(* reserve returned false), out (every index written outside the array)].   *)
(***************************************************************************)
MaxVecOps == 6
MaxVecReserve == 2
VecValues == {1, 2}

InsertAt(list, i, x) == SubSeq(list, 1, i) \o <<x>> \o SubSeq(list, i + 1, Len(list))
EraseAt(list, i) == SubSeq(list, 1, i) \o SubSeq(list, i + 2, Len(list))

VectorInit ==
    /\ call = [v |-> vector_init, list |-> <<>>, n |-> 0, op |-> "init", r |-> TRUE,
               want |-> TRUE, refused |-> FALSE, out |-> {}]
    /\ file = Idle /\ ctx = Idle /\ lx = Idle /\ tok = Idle /\ prev_tok = Idle
    /\ st = Idle /\ st_hist = Idle /\ m = Idle /\ m_call = Idle /\ si = Idle /\ si_log = Idle

VectorDid(op, res, list, want, ok) ==
    /\ call' = [v |-> res.v, list |-> list, n |-> call.n + 1, op |-> op, r |-> res.r,
                want |-> want, refused |-> call.refused \/ ~ok,
                out |-> call.out \cup res.out]
    /\ UNCHANGED <<file, ctx, lx, tok, prev_tok, st, st_hist, m, m_call, si, si_log>>

VectorPush ==
    /\ call.n < MaxVecOps
    /\ \E x \in VecValues, mem \in BOOLEAN :
        LET res == vector_push(call.v, x, mem)
        IN  VectorDid("push", res, IF res.r THEN Append(call.list, x) ELSE call.list, res.r,
                      res.r)

\* on a non-empty vector: vector_pop of an empty one is undefined
VectorPop ==
    /\ call.n < MaxVecOps
    /\ call.v.size > 0
    /\ \E junk \in VecValues :
        LET res == vector_pop(call.v, junk)
        IN  VectorDid("pop", res, SubSeq(call.list, 1, Len(call.list) - 1),
                      call.list[Len(call.list)], TRUE)

VectorInsert ==
    /\ call.n < MaxVecOps
    /\ \E i \in 0..call.v.size, x \in VecValues, mem \in BOOLEAN, junk \in VecValues :
        LET res == vector_insert(call.v, i, x, mem, junk)
        IN  VectorDid("insert", res, IF res.r THEN InsertAt(call.list, i, x) ELSE call.list,
                      res.r, res.r)

VectorErase ==
    /\ call.n < MaxVecOps
    /\ call.v.size > 0
    /\ \E i \in 0..(call.v.size - 1), junk \in VecValues :
        VectorDid("erase", vector_erase(call.v, i, junk), EraseAt(call.list, i), TRUE, TRUE)

VectorReserve ==
    /\ call.n < MaxVecOps
    /\ \E n \in 0..MaxVecReserve, mem \in BOOLEAN :
        LET res == vector_reserve(call.v, n, mem)
        IN  VectorDid("reserve", res, call.list, res.r, res.r)

VectorClear ==
    /\ call.n < MaxVecOps
    /\ VectorDid("clear", vector_clear(call.v), <<>>, TRUE, TRUE)

VectorNext == VectorPush \/ VectorPop \/ VectorInsert \/ VectorErase

SpecVector == VectorInit /\ [][VectorNext]_vars

VectorReserveNext ==
    VectorPush \/ VectorPop \/ VectorInsert \/ VectorErase \/ VectorReserve \/ VectorClear

SpecVectorReserve == VectorInit /\ [][VectorReserveNext]_vars

\* the cells 0 .. size - 1 of the array are the abstract list
VectorIsList ==
    /\ call.v.size = Len(call.list)
    /\ call.v.size <= call.v.capacity
    /\ \A i \in 1..Len(call.list) : call.v.data[i] = call.list[i]

\* C33: after any sequence of vector_push, vector_pop, vector_insert and vector_erase with
\* valid indices the vector holds the abstract list, across every reallocation, and
\* vector_pop returns the last element of the abstract list
C33_VectorRefinesList ==
    /\ VectorIsList
    /\ call.op = "pop" => call.r = call.want

\* an insert at the front of a full vector of four reallocated it and shifted all four
C33_Witness ==
    /\ call.op = "insert" /\ call.r = TRUE
    /\ call.v.capacity = 8 /\ call.v.size = 5
    /\ call.list = <<2, 1, 1, 1, 1>>
    /\ VectorIsList

\* C40: while every push and insert returned true, size <= capacity and nothing was written
\* outside the allocated array, vector_reserve and vector_clear included
C40_VectorWithinCapacity ==
    ~call.refused => /\ call.v.size <= call.v.capacity
                     /\ call.out = {}

\* a push onto a full vector of capacity 1, the capacity vector_reserve gave it
C40_Witness ==
    /\ call.op = "push" /\ call.r = TRUE /\ ~call.refused
    /\ call.v.size = 2
    /\ call.list = <<1, 2>>

(***************************************************************************)
(* deque.h: the ring buffer.  A deque is [data, head, size, capacity]; data *)
(* is the allocated array, a sequence of capacity cells (cell i of the C    *)
(* array is data[i + 1]).  Every operation returns [d, r].  mem: malloc     *)
(* returned a block.                                                        *)
(***************************************************************************)
deque_init(mem) ==
    [data |-> IF mem THEN [k \in 1..4 |-> Indeterminate] ELSE <<>>,
     capacity |-> IF mem THEN 4 ELSE 0, head |-> 0, size |-> 0]

DEQUE_GROW_FACTOR == 2

\* the old cells are copied as they lie, from cell 0 on
DEQUE_GROW_unrotated(d, mem) ==
    LET _oldcap == d.capacity
        _newcap == IF _oldcap /= 0 THEN _oldcap * DEQUE_GROW_FACTOR ELSE 4
        _newbuf == [k \in 1..(_newcap) |->
                       IF k - 1 < d.size THEN d.data[k] ELSE Indeterminate]
    IN  IF mem
        THEN [d |-> [d EXCEPT !.data = _newbuf, !.capacity = _newcap, !.head = 0], r |-> TRUE]
        ELSE [d |-> d, r |-> FALSE]

DEQUE_GROW(d, mem) ==
    LET _oldcap == d.capacity
        _newcap == IF _oldcap /= 0 THEN _oldcap * DEQUE_GROW_FACTOR ELSE 4
        _newbuf == [k \in 1..(_newcap) |->
                       IF k - 1 < d.size THEN d.data[((d.head + k - 1) % _oldcap) + 1]
                       ELSE Indeterminate]
    IN  IF mem
        THEN [d |-> [d EXCEPT !.data = _newbuf, !.capacity = _newcap, !.head = 0], r |-> TRUE]
        ELSE [d |-> d, r |-> FALSE]

deque_push_back(d, elem, mem) ==
    LET g    == IF d.size = d.capacity THEN DEQUE_GROW(d, mem) ELSE [d |-> d, r |-> TRUE]
        _idx == (g.d.head + g.d.size) % g.d.capacity
    IN  IF g.r
        THEN [d |-> [g.d EXCEPT !.data[_idx + 1] = elem, !.size = g.d.size + 1], r |-> TRUE]
        ELSE [d |-> g.d, r |-> FALSE]

deque_push_front(d, elem, mem) ==
    LET g    == IF d.size = d.capacity THEN DEQUE_GROW(d, mem) ELSE [d |-> d, r |-> TRUE]
        head == IF g.d.head /= 0 THEN g.d.head - 1 ELSE g.d.capacity - 1
    IN  IF g.r
        THEN [d |-> [g.d EXCEPT !.head = head, !.data[head + 1] = elem, !.size = g.d.size + 1],
              r |-> TRUE]
        ELSE [d |-> g.d, r |-> FALSE]

deque_pop_front(d) ==
    [d |-> [d EXCEPT !.head = (d.head + 1) % d.capacity, !.size = d.size - 1],
     r |-> d.data[d.head + 1]]

deque_pop_back(d) ==
    LET _idx == (d.head + d.size - 1) % d.capacity
    IN  [d |-> [d EXCEPT !.size = d.size - 1], r |-> d.data[_idx + 1]]

deque_get(d, i) == d.data[((d.head + i) % d.capacity) + 1]

(***************************************************************************)
(* The abstract double-ended sequence next to the deque.  call is [d, list  *)
(* (the abstract sequence, front first), n (operations so far), op, r (the  *)
(* value of the operation), want (the value of the abstract operation)].    *)
(***************************************************************************)
MaxDequeOps == 6

DequeInit ==
    /\ \E mem \in BOOLEAN :
        call = [d |-> deque_init(mem), list |-> <<>>, n |-> 0, op |-> "init", r |-> TRUE,
                want |-> TRUE]
    /\ file = Idle /\ ctx = Idle /\ lx = Idle /\ tok = Idle /\ prev_tok = Idle
    /\ st = Idle /\ st_hist = Idle /\ m = Idle /\ m_call = Idle /\ si = Idle /\ si_log = Idle

DequeDid(op, res, list, want) ==
    /\ call' = [d |-> res.d, list |-> list, n |-> call.n + 1, op |-> op, r |-> res.r,
                want |-> want]
    /\ UNCHANGED <<file, ctx, lx, tok, prev_tok, st, st_hist, m, m_call, si, si_log>>

DequePushBack ==
    /\ call.n < MaxDequeOps
    /\ \E x \in VecValues, mem \in BOOLEAN :
        LET res == deque_push_back(call.d, x, mem)
        IN  DequeDid("push_back", res, IF res.r THEN Append(call.list, x) ELSE call.list, res.r)

DequePushFront ==
    /\ call.n < MaxDequeOps
    /\ \E x \in VecValues, mem \in BOOLEAN :
        LET res == deque_push_front(call.d, x, mem)
        IN  DequeDid("push_front", res, IF res.r THEN <<x>> \o call.list ELSE call.list, res.r)

\* on a non-empty deque: a pop of an empty one is undefined
DequePopFront ==
    /\ call.n < MaxDequeOps
    /\ call.d.size > 0
    /\ DequeDid("pop_front", deque_pop_front(call.d), Tail(call.list), Head(call.list))

DequePopBack ==
    /\ call.n < MaxDequeOps
    /\ call.d.size > 0
    /\ DequeDid("pop_back", deque_pop_back(call.d), SubSeq(call.list, 1, Len(call.list) - 1),
                call.list[Len(call.list)])

DequeNext == DequePushBack \/ DequePushFront \/ DequePopFront \/ DequePopBack

SpecDeque == DequeInit /\ [][DequeNext]_vars

\* C34: after any sequence of deque_push_back, deque_push_front, deque_pop_front and
\* deque_pop_back the deque holds the abstract sequence: deque_get(i) is its i-th element
\* from the front, wrapped or grown, and each pop returned the abstract element
C34_DequeRefinesSequence ==
    /\ call.d.size = Len(call.list)
    /\ call.d.size <= call.d.capacity
    /\ \A i \in 0..(call.d.size - 1) : deque_get(call.d, i) = call.list[i + 1]
    /\ call.op \in {"pop_front", "pop_back"} => call.r = call.want

\* a push onto a full, wrapped ring of four grew it to eight and unwrapped it
C34_Witness ==
    /\ call.op = "push_back" /\ call.r = TRUE
    /\ call.d.capacity = 8 /\ call.d.size = 5 /\ call.d.head = 0
    /\ call.list = <<2, 2, 1, 1, 1>>
    /\ deque_get(call.d, 0) = 2 /\ deque_get(call.d, 4) = 1

(***************************************************************************)
(* diag.c and the cap of the context.  stderr is the sequence of the levels *)
(* of the diagnostics printed.  The files are made of '@', a letter, a      *)
(* space and a newline: the one diagnostic lexer_next reaches on them is    *)
(* "unexpected character" of read_punctuator, printed right before the      *)
(* TOKEN_ERROR is returned (lexer.c:2082-2087).  call is [n, eofs, stderr]. *)
(***************************************************************************)
DIAG_LEVEL_ERROR == "error"

\* prints the location and the message, whatever the context holds
diag_reportv(stderr, lvl) == Append(stderr, lvl)

diag_error(stderr) == diag_reportv(stderr, DIAG_LEVEL_ERROR)

\* yecc_context_set_max_errors on an initialised context
yecc_context_set_max_errors(c, n) == [c EXCEPT !.max_errors = n]

MaxErrChunks == 3
MaxErrorsCap == 2

ErrChunks == {<<64>>, <<97>>, <<32>>, <<10>>}

RECURSIVE ErrFiles(_)
ErrFiles(n) ==
    IF n = 0 THEN {<<>>}
    ELSE ErrFiles(n - 1) \cup {f \o c : f \in ErrFiles(n - 1), c \in ErrChunks}

LexerErrorsInit ==
    /\ file \in ErrFiles(MaxErrChunks)
    /\ \E n \in 1..MaxErrorsCap :
        ctx = yecc_context_set_max_errors(
                  [enable_trigraphs |-> FALSE, gnu_extensions |-> FALSE, wchar_bits |-> 32,
                   max_errors |-> 20], n)
    /\ lx = lexer_init
    /\ tok = NoTok
    /\ prev_tok = NoTok
    /\ call = [n |-> 0, eofs |-> 0, stderr |-> <<>>]
    /\ st = Idle /\ st_hist = Idle /\ m = Idle /\ m_call = Idle /\ si = Idle /\ si_log = Idle

LexerErrorsNext ==
    /\ call.eofs < MaxEofCalls
    /\ lx' = Call("lexer_next", lx).lx
    /\ tok' = Call("lexer_next", lx).r
    /\ prev_tok' = tok
    /\ call' = [n |-> call.n + 1,
                eofs |-> call.eofs + IF tok'.kind = "TOKEN_EOF" THEN 1 ELSE 0,
                stderr |-> IF tok'.kind = "TOKEN_ERROR" THEN diag_error(call.stderr)
                           ELSE call.stderr]
    /\ UNCHANGED <<file, ctx, st, st_hist, m, m_call, si, si_log>>

SpecLexerErrors == LexerErrorsInit /\ [][LexerErrorsNext]_vars

ErrorsPrinted == Cardinality({i \in 1..Len(call.stderr) : call.stderr[i] = DIAG_LEVEL_ERROR})

\* C35: no more than max_errors diagnostics of severity error are printed: once the cap is
\* reached every further one is suppressed, while the lexer goes on returning tokens
C35_ErrorsCapped == ErrorsPrinted <= ctx.max_errors

\* the lexer went on to the end of a file with more unexpected characters than the cap
C35_Witness ==
    /\ tok.kind = "TOKEN_EOF"
    /\ ctx.max_errors = 1
    /\ file = <<64, 64, 64>>
    /\ call.n = 4

(***************************************************************************)
(* A directive whose header-name is not closed on its line, and the line    *)
(* after it.  The file is lexed up to the token after the header-name; then *)
(* the lines after the directive are opened as a file of their own and      *)
(* their first token is lexed by a lexer that saw no error.  call is        *)
(* [phase, n (calls so far), rest (the lines after the directive), third    *)
(* (the kind of the third token), after (the token after it), fresh (the    *)
(* first token of rest lexed alone)].                                       *)
(***************************************************************************)
MaxHeaderChunks == 2

\* directives with an open header-name
HeaderHeads ==
    { Codes(<<"#", "i", "n", "c", "l", "u", "d", "e", " ", "<", "a">>),
      Codes(<<"#", "i", "n", "c", "l", "u", "d", "e", " ", "<", "a", ";", "b">>),
      Codes(<<"#", "i", "n", "c", "l", "u", "d", "e", " ", "\"", "a">>),
      Codes(<<"#", "e", "m", "b", "e", "d", " ", "\"", "a">>) }

HeaderChunks ==
    { <<"#">>, <<"d", "e", "f", "i", "n", "e">>, <<"i", "n", "c", "l", "u", "d", "e">>,
      <<"<", "a", ">">>, <<" ">>, <<"\n">>, <<">">>, <<"\"">> }

RECURSIVE HeaderRests(_)
HeaderRests(n) ==
    IF n = 0 THEN {<<>>}
    ELSE LET shorter == HeaderRests(n - 1)
         IN  shorter \cup {f \o Codes(c) : f \in shorter, c \in HeaderChunks}

\* what is compared of a call: the token without its place, and the flag it left
Seen(res) ==
    [kind |-> res.r.kind, val |-> res.r.val,
     len |-> res.r.loc.end.offset - res.r.loc.start.offset,
     in_directive |-> res.lx.in_directive]

NotSeen == [kind |-> "none"]

\* the directive ends at the end of the file, or a newline and rest follow it
LexerHeaderInit ==
    /\ ctx \in [enable_trigraphs : {FALSE}, gnu_extensions : {FALSE}, wchar_bits : {32}]
    /\ \E head \in HeaderHeads, nl \in BOOLEAN, rest \in HeaderRests(MaxHeaderChunks) :
        /\ ~nl => rest = <<>>
        /\ file = IF nl THEN head \o <<10>> \o rest ELSE head
        /\ call = [phase |-> "whole", n |-> 0, rest |-> rest, third |-> "none",
                   after |-> NotSeen, fresh |-> NotSeen]
    /\ lx = lexer_init
    /\ tok = NoTok
    /\ prev_tok = NoTok
    /\ st = Idle /\ st_hist = Idle /\ m = Idle /\ m_call = Idle /\ si = Idle /\ si_log = Idle

\* lexer_next on the file; after the fourth call the rest is opened as a file
LexerHeaderNext ==
    /\ call.phase = "whole"
    /\ file' = IF call.n = 3 THEN call.rest ELSE file
    /\ tok' = Call("lexer_next", lx).r
    /\ prev_tok' = tok
    /\ call' = [call EXCEPT !.n = call.n + 1,
                            !.third = IF call.n = 2 THEN tok'.kind ELSE @,
                            !.after = IF call.n = 3 THEN Seen(Call("lexer_next", lx)) ELSE @,
                            !.phase = IF call.n = 3 THEN "fresh" ELSE @]
    /\ UNCHANGED <<ctx, st, st_hist, m, m_call, si, si_log>>
    /\ lx' = IF call.n = 3 THEN lexer_init' ELSE Call("lexer_next", lx).lx

\* lexer_next on the rest
LexerHeaderFresh ==
    /\ call.phase = "fresh"
    /\ lx' = Call("lexer_next", lx).lx
    /\ tok' = Call("lexer_next", lx).r
    /\ prev_tok' = tok
    /\ call' = [call EXCEPT !.n = call.n + 1, !.fresh = Seen(Call("lexer_next", lx)),
                            !.phase = "done"]
    /\ UNCHANGED <<file, ctx, st, st_hist, m, m_call, si, si_log>>

LexerHeaderStep == LexerHeaderNext \/ LexerHeaderFresh

SpecLexerHeader == LexerHeaderInit /\ [][LexerHeaderStep]_vars

\* C36: an unterminated header-name is one ERROR token, and the token after it is the
\* first token of the following line as a lexer that saw no error lexes it: same kind,
\* payload and length, same in_directive after it
C36_HeaderNameRecovery ==
    call.phase = "done" =>
        /\ call.third = "TOKEN_ERROR"
        /\ call.after = call.fresh

\* the line after the unterminated header-name is a directive
C36_Witness ==
    /\ call.phase = "done"
    /\ call.third = "TOKEN_ERROR"
    /\ call.after.kind = "TOKEN_PP_HASH" /\ call.after.in_directive
    /\ call.fresh.kind = "TOKEN_PP_HASH"
    /\ call.rest = Codes(<<"#", "d", "e", "f", "i", "n", "e">>)

(***************************************************************************)
(* Directives of two names and an opener: '#', the directive name, a space, *)
(* a second identifier, a space, and "<x>" or a quoted "x".                 *)
(***************************************************************************)
ArmFirstNames ==
    { Codes(<<"d", "e", "f", "i", "n", "e">>), Codes(<<"i", "f">>), Codes(<<"a">>),
      Codes(<<"i", "n", "c", "l", "u", "d", "e">>), Codes(<<"e", "m", "b", "e", "d">>) }

ArmSecondNames ==
    { Codes(<<"i", "n", "c", "l", "u", "d", "e">>),
      Codes(<<"i", "n", "c", "l", "u", "d", "e", "_", "n", "e", "x", "t">>),
      Codes(<<"i", "m", "p", "o", "r", "t">>), Codes(<<"e", "m", "b", "e", "d">>),
      Codes(<<"d", "e", "f", "i", "n", "e">>), Codes(<<"a">>) }

ArmOpeners == { Codes(<<"<", "x", ">">>), Codes(<<"\"", "x", "\"">>) }

\* the spellings of the directive names that take a header-name
ArmingNames ==
    { Codes(<<"i", "n", "c", "l", "u", "d", "e">>),
      Codes(<<"i", "n", "c", "l", "u", "d", "e", "_", "n", "e", "x", "t">>),
      Codes(<<"i", "m", "p", "o", "r", "t">>), Codes(<<"e", "m", "b", "e", "d">>) }

LexerArmInit ==
    /\ ctx \in [enable_trigraphs : {FALSE}, gnu_extensions : {FALSE}, wchar_bits : {32}]
    /\ \E first \in ArmFirstNames, second \in ArmSecondNames, opener \in ArmOpeners,
          nl \in BOOLEAN :
        file = Codes(<<"#">>) \o first \o <<32>> \o second \o <<32>> \o opener
                   \o (IF nl THEN <<10>> ELSE <<>>)
    /\ lx = lexer_init
    /\ tok = NoTok
    /\ prev_tok = NoTok
    /\ call = [n |-> 0, start |-> 0, dir |-> -1, eofs |-> 0]
    /\ st = Idle /\ st_hist = Idle /\ m = Idle /\ m_call = Idle /\ si = Idle /\ si_log = Idle

SpecLexerArm == LexerArmInit /\ [][LexerNext]_vars

\* the first identifier after the '#': the bytes from offset 1 up to the first space
DirectiveName ==
    LET sp == MinOf({i \in 1..(FileLen - 1) : FileByte(i) = 32})
    IN  FileBytes(1, sp)

\* C37: a header-name token is lexed only in a directive whose name, the first identifier
\* after the '#', is include, include_next, import or embed
C37_ArmedByDirectiveNameOnly ==
    tok.kind = "TOKEN_HEADER_NAME" => DirectiveName \in ArmingNames

\* the opener of "#define include <x>" was lexed
C37_Witness ==
    /\ DirectiveName = Codes(<<"d", "e", "f", "i", "n", "e">>)
    /\ prev_tok.kind = "TOKEN_PP_INCLUDE"
    /\ FileByte(tok.loc.start.offset) = ord["<"]
    /\ tok.loc.start.offset = 16

\* the code points the pair fed the sink: those of a, then those of b
PairEncoded ==
    for_each_cp_from_token(call.a, ctx, call.build)
        \o for_each_cp_from_token(call.b, ctx, call.build)

\* C38: a wide string token the concatenation produced decodes, by for_each_cp_from_token
\* under the same wchar_bits, to exactly the code points w_append encoded into it
C38_WideDecodeMirrorsEncode ==
    (PairDone /\ tok_kind_from_flags(tok) = LIT_WIDE) =>
        for_each_cp_from_token(tok, ctx, call.build) = PairEncoded

\* a wide token of three code points, of 16-bit units held in a 32-bit wchar_t
C38_Witness ==
    /\ PairDone /\ tok_kind_from_flags(tok) = LIT_WIDE
    /\ ctx.wchar_bits = 16 /\ call.build.host = 32
    /\ PairEncoded = <<97, 233, 98>>
    /\ tok.val = <<97, 233, 98>>

\* the token returned starts at a '"' and the next '"' is the last byte of the file, with
\* no backslash, newline or '?' between them
StringClosedAtEnd ==
    /\ RealTok(tok)
    /\ tok.loc.start.offset < FileLen - 1
    /\ FileByte(tok.loc.start.offset) = ord["\""]
    /\ FileByte(FileLen - 1) = ord["\""]
    /\ \A k \in (tok.loc.start.offset + 1)..(FileLen - 2) :
        FileByte(k) \notin {ord["\""], ord["\\"], ord["\n"], ord["?"]}

\* C39: a string literal whose closing quote is the last byte of the file is a
\* TOKEN_STRING_LITERAL and no "unterminated string literal" diagnostic is emitted for it
C39_ClosedStringNotUnterminated ==
    StringClosedAtEnd =>
        /\ tok.kind = "TOKEN_STRING_LITERAL"
        /\ tok.val.unterminated = 0

\* the file "a" in its quotes was lexed
C39_Witness ==
    /\ StringClosedAtEnd
    /\ FileLen = 3 /\ tok.loc.start.offset = 0 /\ FileByte(1) = ord["a"]
    /\ tok.loc.end.offset = 3
====
